---- MODULE Spec2Model ----
(***************************************************************************)
(* A model of the host's contract revision protocol of rivine              *)
(* (modules/host/negotiaterevisecontract.go): managedRPCReviseContract,    *)
(* managedRevisionIteration and verifyRevision; of the consensus           *)
(* transaction validators for double spends and balance; and of the host   *)
(* database scanner (modules/renter/hostdb/scan.go).                       *)
(*                                                                         *)
(* Scaling.  uint64 and types.BlockHeight are modelled as WordBits-bit     *)
(* unsigned words (arithmetic modulo 2^WordBits), modules.SectorSize as a  *)
(* sector of SectorSize bytes, each 0 or 1, wall-clock time as integer     *)
(* ticks.  Cryptographic hashes are modelled symbolically (a hash is the   *)
(* tagged tuple of what was hashed), so two hashes are equal exactly when  *)
(* their preimages are.                                                    *)
(***************************************************************************)
EXTENDS Integers, Sequences, FiniteSets, TLC

VARIABLES
    \* ---- host state shared by all connections ----
    obligations,   \* durable storage obligations, by file contract ID
    locked,        \* h.lockedStorageObligations: the contract IDs locked
    blockHeight,   \* h.blockHeight
    settings,      \* h.settings
    now,           \* wall-clock time, in ticks
    \* ---- one managedRPCReviseContract call per connection ----
    pc,            \* position of the call
    so,            \* the call's storage obligation (local variable so)
    deferred,      \* contract IDs the deferred function will unlock
    unlocks,       \* number of managedUnlockStorageObligation calls made
    startTime,     \* local variable startTime
    finalIter,     \* timeoutReached / finalIter of the current iteration
    iter,          \* per-iteration locals and what the iteration has done
    ret,           \* the error managedRPCReviseContract returned
    renter,        \* how much the renters of this run try: "thorough" or "terse"
    \* ---- a bare call of verifyRevision ----
    vr,            \* arguments and result of the call
    \* ---- a bare run of the modification loop of managedRevisionIteration ----
    batch,         \* the modifications left, the loop's variables so far
    \* ---- a bare call of the consensus transaction validators ----
    tv,            \* the transaction, the consensus state, the results
    \* ---- the host database and its scanner ----
    hostEntries,   \* the hostEntry objects, by pointer
    allHosts,      \* hdb.allHosts: net address -> pointer
    activeHosts,   \* hdb.activeHosts: net address -> pointer of the node's entry
    producers,     \* the goroutines of scanHostEntry that have not sent yet:
                   \* pointer -> count
    scanPool,      \* hdb.scanPool, the probe channel: pointer -> count
    workers,       \* threadedProbeHosts: the workers between the probe of an
                   \* entry and managedUpdateEntry, counted by entry and error
    driver,        \* threadedScan: its position, the lock it holds, the
                   \* entries its round has still to enqueue
    closed,        \* whether hdb.closeChan and hdb.scanPool are closed
    exited,        \* number of workers that have left threadedProbeHosts
    network,       \* how the hosts of this run answer: "up", "down" or
                   \* "unsteady"
    \* ---- a bare call of calculateHostWeight ----
    hw,            \* the entries weighed and their weights
    \* ---- the lock of the host database ----
    mu,            \* hdb.mu: who holds it, and the workers that read an
                   \* entry, probe a host or save
    \* ---- a bare call of processConfig ----
    cfg            \* the configuration and the result

dbVars == <<hostEntries, allHosts, activeHosts>>
threadVars == <<driver, closed, exited, network>>

hdbVars == <<dbVars, producers, scanPool, workers, threadVars, hw, mu>>

vars == <<obligations, locked, blockHeight, settings, now, pc, so, deferred,
          unlocks, startTime, finalIter, iter, ret, renter, vr, batch, tv,
          hdbVars, cfg>>

hostVars == <<obligations, locked, blockHeight, settings, now>>
connVars == <<pc, so, deferred, unlocks, startTime, finalIter, iter, ret, renter>>

-----------------------------------------------------------------------------
(* Bounds of the model *)

WordBits == 3              \* width of the modelled uint64 / BlockHeight
SectorSize == 2            \* modules.SectorSize, in bytes
revisionSubmissionBuffer == 2   \* blocks
iteratedConnectionTime == 1     \* ticks
MaxTime == 2               \* the clock stops here
MaxBlockHeight == 2        \* the chain stops growing here
MaxSectors == 2            \* the renter never grows a contract beyond this
MaxRevisionNumber == 3     \* the renter never numbers a revision above this
MaxInputs == 2             \* inputs of one kind in a transaction
MaxOutputs == 2            \* outputs of one kind in a transaction
MaxValue == 2              \* the largest value of an output or of a miner fee
MaxReliability == 2        \* hostdb.MaxReliability, scaled down
DefaultReliability == 1    \* hostdb.DefaultReliability, scaled down
UnreachablePenalty == 1    \* hostdb.UnreachablePenalty
maxActiveHosts == 1        \* scaled down
inactiveHostCheckupQuantity == 1   \* scaled down
scanningThreads == 1       \* scaled down
MaxQueued == 1             \* times one entry waits in the scan pool at once
scanPoolSize == 1          \* capacity of hdb.scanPool

WordModulus == 2 ^ WordBits
U64(x) == x % WordModulus

Conns == {"c1", "c2"}
ContractIDs == {"fc1", "fc2"}

-----------------------------------------------------------------------------
(* Errors *)

nil == [type |-> "nil", msg |-> <<>>]
errorsNew(m) == [type |-> "error", msg |-> <<m>>]
ErrorConnection(m) == [type |-> "ErrorConnection", msg |-> <<m>>]
ErrorInternal(m) == [type |-> "ErrorInternal", msg |-> <<m>>]

\* extendErr(s, err): nil stays nil; otherwise an error of err's type whose
\* message is err's message prefixed by s.
extendErr(s, err) ==
    IF err = nil THEN nil ELSE [type |-> err.type, msg |-> <<s>> \o err.msg]

ErrStopResponse == errorsNew("ErrStopResponse")

errBadContractOutputCounts == errorsNew("errBadContractOutputCounts")
errBadContractParent == errorsNew("errBadContractParent")
errBadFileMerkleRoot == errorsNew("errBadFileMerkleRoot")
errBadFileSize == errorsNew("errBadFileSize")
errBadModificationIndex == errorsNew("errBadModificationIndex")
errBadRevisionNumber == errorsNew("errBadRevisionNumber")
errBadSectorSize == errorsNew("errBadSectorSize")
errBadUnlockConditions == errorsNew("errBadUnlockConditions")
errBadUnlockHash == errorsNew("errBadUnlockHash")
errBadWindowEnd == errorsNew("errBadWindowEnd")
errBadWindowStart == errorsNew("errBadWindowStart")
errHighRenterMissedOutput == errorsNew("errHighRenterMissedOutput")
errHighRenterValidOutput == errorsNew("errHighRenterValidOutput")
errIllegalOffsetAndLength == errorsNew("errIllegalOffsetAndLength")
errLargeSector == errorsNew("errLargeSector")
errLateRevision == errorsNew("errLateRevision")
errLowHostMissedOutput == errorsNew("errLowHostMissedOutput")
errLowHostValidOutput == errorsNew("errLowHostValidOutput")
errUnknownModification == errorsNew("errUnknownModification")

-----------------------------------------------------------------------------
(* Hashes *)

\* crypto.MerkleRoot(data): the root of one sector's data.
MerkleRoot(data) == <<"sector", data>>

\* The largest power of two strictly below n (n >= 2).
RECURSIVE SplitPoint(_, _)
SplitPoint(n, k) == IF 2 * k < n THEN SplitPoint(n, 2 * k) ELSE k

\* crypto.CachedTree: Push every sector root, then Root().  A binary Merkle
\* tree over the pushed roots.
RECURSIVE CachedTreeRoot(_)
CachedTreeRoot(roots) ==
    IF Len(roots) = 0 THEN <<"empty">>
    ELSE IF Len(roots) = 1 THEN roots[1]
    ELSE LET k == SplitPoint(Len(roots), 1)
         IN  <<"node", CachedTreeRoot(SubSeq(roots, 1, k)),
                       CachedTreeRoot(SubSeq(roots, k + 1, Len(roots)))>>

\* types.UnlockConditions.UnlockHash()
UnlockHash(uc) == <<"unlockhash", uc>>

-----------------------------------------------------------------------------
(* Storage obligations *)

\* so.RevisionTransactionSet[len(so.RevisionTransactionSet)-1].FileContractRevisions[0]
LatestRevision(o) ==
    o.RevisionTransactionSet[Len(o.RevisionTransactionSet)].FileContractRevisions[1]

\* so.expiration() and so.proofDeadline(): the obligation's expiration height
\* and the end of its proof window.
expiration(o) == o.Expiration
proofDeadline(o) == o.ProofDeadline

-----------------------------------------------------------------------------
(* verifyRevision *)

LateRevision_NoBuffer(o, height) == expiration(o) <= height

LateRevision_Strict(o, height) ==
    U64(expiration(o) - revisionSubmissionBuffer) < height

\* The lateness test of verifyRevision: TRUE when the revision is late.
LateRevision(o, height) ==
    U64(expiration(o) - revisionSubmissionBuffer) <= height

StaleRevisionNumber_EqualAllowed(oldFCR, revision) ==
    oldFCR.NewRevisionNumber > revision.NewRevisionNumber

\* The revision number test: TRUE when the number does not increase.
StaleRevisionNumber(oldFCR, revision) ==
    oldFCR.NewRevisionNumber >= revision.NewRevisionNumber

BadFileMerkleRoot_Unchecked(o, revision) == FALSE

\* The Merkle root test: a cached tree over the sector roots, against the
\* revision's root.
BadFileMerkleRoot(o, revision) ==
    revision.NewFileMerkleRoot # CachedTreeRoot(o.SectorRoots)

LowHostMissedOutput_Reversed(oldFCR, revision, newCollateral) ==
    revision.NewMissedProofOutputs[2] + newCollateral > oldFCR.NewMissedProofOutputs[2]

\* The host's missed output test: TRUE when the proposed output, with the
\* collateral added back, is below the current one.
LowHostMissedOutput(oldFCR, revision, newCollateral) ==
    revision.NewMissedProofOutputs[2] + newCollateral < oldFCR.NewMissedProofOutputs[2]

verifyRevision_InvariantFieldsFirst(o, revision, height, newRevenue, newCollateral) ==
    LET oldFCR == LatestRevision(o) IN
    IF Len(revision.NewValidProofOutputs) # 2
         \/ Len(revision.NewMissedProofOutputs) # 3
    THEN errBadContractOutputCounts
    ELSE IF LateRevision(o, height) THEN errLateRevision
    ELSE IF oldFCR.ParentID # revision.ParentID THEN errBadContractParent
    ELSE IF UnlockHash(oldFCR.UnlockConditions) # UnlockHash(revision.UnlockConditions)
    THEN errBadUnlockConditions
    ELSE IF oldFCR.NewWindowStart # revision.NewWindowStart THEN errBadWindowStart
    ELSE IF oldFCR.NewWindowEnd # revision.NewWindowEnd THEN errBadWindowEnd
    ELSE IF oldFCR.NewUnlockHash # revision.NewUnlockHash THEN errBadUnlockHash
    ELSE IF StaleRevisionNumber(oldFCR, revision) THEN errBadRevisionNumber
    ELSE IF revision.NewFileSize # U64(U64(Len(o.SectorRoots)) * SectorSize)
    THEN errBadFileSize
    ELSE IF revision.NewValidProofOutputs[1] + newRevenue > oldFCR.NewValidProofOutputs[1]
    THEN errHighRenterValidOutput
    ELSE IF oldFCR.NewValidProofOutputs[2] + newRevenue < revision.NewValidProofOutputs[2]
    THEN errLowHostValidOutput
    ELSE IF revision.NewMissedProofOutputs[1] + newRevenue > oldFCR.NewMissedProofOutputs[1]
    THEN errHighRenterMissedOutput
    ELSE IF LowHostMissedOutput(oldFCR, revision, newCollateral)
    THEN errLowHostMissedOutput
    ELSE IF BadFileMerkleRoot(o, revision) THEN errBadFileMerkleRoot
    ELSE nil

verifyRevision(o, revision, height, newRevenue, newCollateral) ==
    LET oldFCR == LatestRevision(o) IN
    IF Len(revision.NewValidProofOutputs) # 2
         \/ Len(revision.NewMissedProofOutputs) # 3
    THEN errBadContractOutputCounts
    ELSE IF LateRevision(o, height) THEN errLateRevision
    ELSE IF oldFCR.ParentID # revision.ParentID THEN errBadContractParent
    ELSE IF UnlockHash(oldFCR.UnlockConditions) # UnlockHash(revision.UnlockConditions)
    THEN errBadUnlockConditions
    ELSE IF StaleRevisionNumber(oldFCR, revision) THEN errBadRevisionNumber
    ELSE IF revision.NewFileSize # U64(U64(Len(o.SectorRoots)) * SectorSize)
    THEN errBadFileSize
    ELSE IF oldFCR.NewWindowStart # revision.NewWindowStart THEN errBadWindowStart
    ELSE IF oldFCR.NewWindowEnd # revision.NewWindowEnd THEN errBadWindowEnd
    ELSE IF oldFCR.NewUnlockHash # revision.NewUnlockHash THEN errBadUnlockHash
    ELSE IF revision.NewValidProofOutputs[1] + newRevenue > oldFCR.NewValidProofOutputs[1]
    THEN errHighRenterValidOutput
    ELSE IF oldFCR.NewValidProofOutputs[2] + newRevenue < revision.NewValidProofOutputs[2]
    THEN errLowHostValidOutput
    ELSE IF revision.NewMissedProofOutputs[1] + newRevenue > oldFCR.NewMissedProofOutputs[1]
    THEN errHighRenterMissedOutput
    ELSE IF LowHostMissedOutput(oldFCR, revision, newCollateral)
    THEN errLowHostMissedOutput
    ELSE IF BadFileMerkleRoot(o, revision) THEN errBadFileMerkleRoot
    ELSE nil

-----------------------------------------------------------------------------
(* The modifications of one batch (managedRevisionIteration, the closure) *)

\* copy(sector[offset:], data)
Copy(sector, offset, data) ==
    [i \in 1..Len(sector) |->
        IF i > offset /\ i - offset <= Len(data) THEN data[i - offset]
        ELSE sector[i]]

\* h.ReadSector(root): the stored sector whose root this is.
ReadSector(root) == root[2]

\* append(roots[0:i], roots[i+1:]...)
RemoveAt(roots, i) == SubSeq(roots, 1, i) \o SubSeq(roots, i + 2, Len(roots))
InsertAt_AtEnd(roots, i, r) == Append(roots, r)

\* append(roots[:i], append([]crypto.Hash{r}, roots[i:]...)...)
InsertAt(roots, i, r) ==
    SubSeq(roots, 1, i) \o <<r>> \o SubSeq(roots, i + 1, Len(roots))

\* The state of the closure before the first modification.
BatchStart(roots) ==
    [err |-> nil, SectorRoots |-> roots,
     bandwidthRevenue |-> 0, storageRevenue |-> 0, newCollateral |-> 0,
     sectorsRemoved |-> <<>>, sectorsGained |-> <<>>, gainedSectorData |-> <<>>]

BadModificationIndex_InsertStrict(m, roots) ==
    m.SectorIndex >= U64(Len(roots))

\* The index test of one modification: TRUE when the index is refused.
BadModificationIndex(m, roots) ==
    IF m.Type = "ActionInsert"
    THEN m.SectorIndex > U64(Len(roots))
    ELSE m.SectorIndex >= U64(Len(roots))

IllegalOffsetAndLength_NoOffsetTest(m) ==
    U64(m.Offset + U64(Len(m.Data))) > SectorSize

\* The offset test of an ActionModify: TRUE when it is refused.
IllegalOffsetAndLength(m) ==
    m.Offset > SectorSize \/ U64(m.Offset + U64(Len(m.Data))) > SectorSize

BlockBytesCurrency_PerSector(o, height) == U64(proofDeadline(o) - height)

\* blocksRemaining := so.proofDeadline() - blockHeight;
\* blockBytesCurrency := NewCurrency64(uint64(blocksRemaining)).Mul64(SectorSize)
BlockBytesCurrency(o, height) == U64(proofDeadline(o) - height) * SectorSize

\* One pass of the loop body over modification m, from closure state st.
\* hs: the host's settings; height: its block height; o: the obligation;
\* readable: whether h.ReadSector succeeds.
ApplyModification(st, m, hs, height, o, readable) ==
    LET roots == st.SectorRoots
        fail(e) == [st EXCEPT !.err = e]
    IN
    IF BadModificationIndex(m, roots) THEN fail(errBadModificationIndex)
    ELSE IF U64(Len(m.Data)) > SectorSize THEN fail(errLargeSector)
    ELSE IF m.Type = "ActionDelete" THEN
        [st EXCEPT
            !.sectorsRemoved = Append(@, roots[m.SectorIndex + 1]),
            !.SectorRoots = RemoveAt(roots, m.SectorIndex)]
    ELSE IF m.Type = "ActionInsert" THEN
        IF U64(Len(m.Data)) # SectorSize THEN fail(errBadSectorSize)
        ELSE
        LET blockBytesCurrency == BlockBytesCurrency(o, height)
            newRoot == MerkleRoot(m.Data)
        IN  [st EXCEPT
                !.bandwidthRevenue = @ + hs.MinUploadBandwidthPrice * SectorSize,
                !.storageRevenue = @ + hs.MinStoragePrice * blockBytesCurrency,
                !.newCollateral = @ + hs.Collateral * blockBytesCurrency,
                !.sectorsGained = Append(@, newRoot),
                !.gainedSectorData = Append(@, m.Data),
                !.SectorRoots = InsertAt(roots, m.SectorIndex, newRoot)]
    ELSE IF m.Type = "ActionModify" THEN
        IF IllegalOffsetAndLength(m) THEN fail(errIllegalOffsetAndLength)
        ELSE IF ~readable
        THEN fail(extendErr("could not read sector: ", ErrorInternal("read")))
        ELSE
        LET sector == Copy(ReadSector(roots[m.SectorIndex + 1]), m.Offset, m.Data)
            newRoot == MerkleRoot(sector)
        IN  [st EXCEPT
                !.bandwidthRevenue = @ + hs.MinUploadBandwidthPrice * U64(Len(m.Data)),
                !.sectorsRemoved = Append(@, roots[m.SectorIndex + 1]),
                !.sectorsGained = Append(@, newRoot),
                !.gainedSectorData = Append(@, sector),
                !.SectorRoots = [roots EXCEPT ![m.SectorIndex + 1] = newRoot]]
    ELSE fail(errUnknownModification)

\* The loop over the batch: it stops at the first modification that fails.
RECURSIVE ApplyModifications(_, _, _, _, _, _)
ApplyModifications(st, mods, hs, height, o, readable) ==
    IF mods = <<>> \/ st.err # nil THEN st
    ELSE ApplyModifications(ApplyModification(st, Head(mods), hs, height, o, readable),
                            Tail(mods), hs, height, o, readable)

\* The whole closure: the batch, then verifyRevision on the obligation with
\* the modified sector roots.  Its err is what the closure returns.
ApplyAndVerify(o, mods, revision, hs, height, readable) ==
    LET st == ApplyModifications(BatchStart(o.SectorRoots), mods, hs, height, o, readable)
        newRevenue == st.storageRevenue + st.bandwidthRevenue
    IN  IF st.err # nil THEN st
        ELSE [st EXCEPT !.err =
                extendErr("unable to verify revision: ",
                    verifyRevision([o EXCEPT !.SectorRoots = st.SectorRoots],
                                   revision, height, newRevenue, st.newCollateral))]

-----------------------------------------------------------------------------
(* What the renter may send *)

Modification(t, i, off, d) ==
    [Type |-> t, SectorIndex |-> i, Offset |-> off, Data |-> d]

\* The batches a renter sends over a connection: none, one or two
\* modifications that insert, delete or modify a sector, and batches the
\* host must refuse.
RenterBatches(kind) ==
    LET zeros == [i \in 1..SectorSize |-> 0]
        ones == [i \in 1..SectorSize |-> 1]
    IN  IF kind = "terse"
        THEN {<<>>, <<Modification("ActionInsert", 0, 0, zeros)>>}
        ELSE
        {<<>>,
         <<Modification("ActionInsert", 0, 0, zeros)>>,
         <<Modification("ActionInsert", 1, 0, ones)>>,
         <<Modification("ActionDelete", 0, 0, <<>>)>>,
         <<Modification("ActionModify", 0, 0, <<1>>)>>,
         <<Modification("ActionInsert", 0, 0, zeros),
           Modification("ActionInsert", 1, 0, ones)>>,
         <<Modification("ActionInsert", 0, 0, <<>>)>>,
         <<Modification("ActionModify", 0, SectorSize, <<1>>)>>,
         <<Modification("ActionUnknown", 0, 0, <<>>)>>}

Monus(a, b) == IF a >= b THEN a - b ELSE 0

\* The revision an honest renter proposes for an obligation whose sector
\* roots are (after the batch) roots: the next revision number, the new size
\* and root, the revenue moved from the renter to the host.
HonestRevision(old, roots, newRevenue, newCollateral) ==
    [old EXCEPT
        !.NewRevisionNumber = @ + 1,
        !.NewFileSize = U64(Len(roots) * SectorSize),
        !.NewFileMerkleRoot = CachedTreeRoot(roots),
        !.NewValidProofOutputs =
            <<Monus(old.NewValidProofOutputs[1], newRevenue),
              old.NewValidProofOutputs[2] + newRevenue>>,
        !.NewMissedProofOutputs =
            <<Monus(old.NewMissedProofOutputs[1], newRevenue),
              Monus(old.NewMissedProofOutputs[2], newCollateral),
              old.NewMissedProofOutputs[3]>>]

\* The revisions a renter proposes over a connection: the honest one, and
\* the honest one with one field wrong.
RenterRevisions(kind, old, roots, newRevenue, newCollateral) ==
    LET h == HonestRevision(old, roots, newRevenue, newCollateral) IN
    IF kind = "terse"
    THEN {h, [h EXCEPT !.NewRevisionNumber = old.NewRevisionNumber]}
    ELSE
    {h,
     [h EXCEPT !.ParentID = "fc0"],
     [h EXCEPT !.UnlockConditions = "uc0"],
     [h EXCEPT !.NewRevisionNumber = old.NewRevisionNumber],
     [h EXCEPT !.NewFileSize = U64(@ + SectorSize)],
     [h EXCEPT !.NewValidProofOutputs[1] = @ + 1],
     [h EXCEPT !.NewFileMerkleRoot = <<"node", @, @>>]}

-----------------------------------------------------------------------------
(* Initial state *)

InitialRevision(id) ==
    [ParentID |-> id,
     UnlockConditions |-> "uc1",
     NewRevisionNumber |-> 1,
     NewFileSize |-> 0,
     NewFileMerkleRoot |-> CachedTreeRoot(<<>>),
     NewWindowStart |-> revisionSubmissionBuffer + 2,
     NewWindowEnd |-> revisionSubmissionBuffer + 3,
     NewValidProofOutputs |-> <<20 * SectorSize, 0>>,
     NewMissedProofOutputs |-> <<20 * SectorSize, 20 * SectorSize, 0>>,
     NewUnlockHash |-> "uh1"]

\* The transaction createRevisionSignature builds: the revision, signed by
\* the renter and by the host.
RevisionTransaction(revision, renterSig) ==
    [FileContractRevisions |-> <<revision>>,
     TransactionSignatures |-> <<renterSig, "hostSig">>]

InitialObligation(id) ==
    [id |-> id,
     SectorRoots |-> <<>>,
     PotentialStorageRevenue |-> 0,
     RiskedCollateral |-> 0,
     PotentialUploadRevenue |-> 0,
     Expiration |-> revisionSubmissionBuffer + 2,
     ProofDeadline |-> revisionSubmissionBuffer + 3,
     RevisionTransactionSet |-> <<RevisionTransaction(InitialRevision(id), "renterSig")>>]

NoObligation == [id |-> "none"]
NoRevision == [ParentID |-> "none"]

HostSettings ==
    [MinStoragePrice |-> 1, MinUploadBandwidthPrice |-> 1, Collateral |-> 1]

\* The per-iteration locals at the top of an iteration: what the host has
\* written to the connection (out), whether modifyStorageObligation was
\* called and whether it succeeded, the error the iteration returned, the
\* revision read, the block height read from the host and the revenues
\* computed.
IterationStartState ==
    [out |-> <<>>, committed |-> FALSE, modifyCalled |-> FALSE,
     err |-> nil, revision |-> NoRevision, blockHeight |-> 0,
     storageRevenue |-> 0, bandwidthRevenue |-> 0, newCollateral |-> 0]

NoCall == [state |-> "unused"]

\* The host database is not running.
NoHostDB ==
    /\ hostEntries = <<>>
    /\ allHosts = <<>>
    /\ activeHosts = <<>>
    /\ producers = <<>>
    /\ scanPool = <<>>
    /\ workers = <<>>
    /\ driver = NoCall /\ closed = NoCall /\ exited = 0 /\ network = "none"
    /\ hw = NoCall
    /\ mu = NoCall

InitHost ==
    /\ obligations = [id \in ContractIDs |-> InitialObligation(id)]
    /\ locked = {}
    /\ blockHeight = 0
    /\ settings = HostSettings
    /\ now = 0

\* The connections in open are made during the run, the others never.
InitConns(open) ==
    /\ pc = [c \in Conns |-> IF c \in open THEN "idle" ELSE "closed"]
    /\ so = [c \in Conns |-> NoObligation]
    /\ deferred = [c \in Conns |-> <<>>]
    /\ unlocks = [c \in Conns |-> 0]
    /\ startTime = [c \in Conns |-> 0]
    /\ finalIter = [c \in Conns |-> FALSE]
    /\ iter = [c \in Conns |-> IterationStartState]
    /\ ret = [c \in Conns |-> nil]

\* One connection, of a thorough renter.
Init ==
    /\ cfg = NoCall
    /\ InitHost /\ InitConns({"c1"}) /\ renter = "thorough"
    /\ vr = NoCall /\ batch = NoCall /\ tv = NoCall /\ NoHostDB

\* Two connections, of terse renters.
InitConcurrent ==
    /\ cfg = NoCall
    /\ InitHost /\ InitConns(Conns) /\ renter = "terse"
    /\ vr = NoCall /\ batch = NoCall /\ tv = NoCall /\ NoHostDB

-----------------------------------------------------------------------------
(* managedRPCReviseContract *)

\* What the host writes to the connection.
SettingsMessage(hs) == [what |-> "settings", settings |-> hs]
RevisionAccepted == [what |-> "revisionAccepted"]
Rejection(err) == [what |-> "rejection", err |-> err]
IterationSignal(token) == [what |-> "iterationSignal", token |-> token]
HostSignature == [what |-> "signature", sig |-> "hostSig"]

\* The lock managedRPCRecentRevision takes on the obligation: granted only
\* when no connection holds it.
CanLockStorageObligation(lk, id) == id \notin lk
LockStorageObligation(lk, id) == lk \cup {id}

\* h.managedUnlockStorageObligation(id)
UnlockStorageObligation(lk, id) == lk \ {id}

RegisterUnlock_Immediate(lk, id) ==
    [locked |-> UnlockStorageObligation(lk, id), deferred |-> <<>>]

RegisterUnlock_Forgotten(lk, id) == [locked |-> lk, deferred |-> <<>>]

\* defer func() { h.managedUnlockStorageObligation(so.id()) }(): the lock
\* stays held and the unlock is left for the return.
RegisterUnlock(lk, id) == [locked |-> lk, deferred |-> <<id>>]

\* The return of managedRPCReviseContract: the deferred function runs.
Return(c, err) ==
    /\ pc' = [pc EXCEPT ![c] = "done"]
    /\ ret' = [ret EXCEPT ![c] = err]
    /\ locked' = IF deferred[c] = <<>> THEN locked
                  ELSE UnlockStorageObligation(locked, Head(deferred[c]))
    /\ unlocks' = [unlocks EXCEPT ![c] = @ + Len(deferred[c])]
    /\ deferred' = [deferred EXCEPT ![c] = <<>>]

TimeoutReached_AtLeast(start, t) == t - start >= iteratedConnectionTime

\* timeoutReached = time.Since(startTime) > iteratedConnectionTime
TimeoutReached(start, t) == t - start > iteratedConnectionTime

LoopOutcome_ErrorsIgnored(err, final) ==
    IF err = ErrStopResponse THEN "return nil"
    ELSE IF final THEN "return nil"
    ELSE "iterate"

\* The body of the revision loop after managedRevisionIteration has
\* returned err, and the loop condition.
LoopOutcome(err, final) ==
    IF err = ErrStopResponse THEN "return nil"
    ELSE IF err # nil THEN "return err"
    ELSE IF final THEN "return nil"
    ELSE "iterate"

\* managedRevisionIteration returns err to the loop, leaving the iteration's
\* locals as it.
IterationReturns(c, err, it, final) ==
    /\ iter' = [iter EXCEPT ![c] = [it EXCEPT !.err = err]]
    /\ LET outcome == LoopOutcome(err, final) IN
       IF outcome = "return nil" THEN Return(c, nil)
       ELSE IF outcome = "return err"
       THEN Return(c, extendErr("revision iteration failed: ", err))
       ELSE /\ pc' = [pc EXCEPT ![c] = "top"]
            /\ UNCHANGED <<ret, locked, unlocks, deferred>>

\* managedRPCRecentRevision hands over the obligation of the contract the
\* renter names, locked; the unlock is deferred.
RecentRevision(c) ==
    /\ pc[c] = "idle"
    /\ \E id \in ContractIDs :
        /\ CanLockStorageObligation(locked, id)
        /\ LET r == RegisterUnlock(LockStorageObligation(locked, id), id) IN
            /\ locked' = r.locked
            /\ deferred' = [deferred EXCEPT ![c] = r.deferred]
        /\ so' = [so EXCEPT ![c] = obligations[id]]
    /\ startTime' = [startTime EXCEPT ![c] = now]
    /\ pc' = [pc EXCEPT ![c] = "top"]
    /\ UNCHANGED <<obligations, blockHeight, settings, now, unlocks, finalIter,
                   iter, ret, renter, vr, batch, tv, hdbVars, cfg>>

\* managedRPCRecentRevision fails (the obligation is locked by another
\* connection, or the exchange fails): no obligation, no lock.
RecentRevisionFails(c) ==
    /\ pc[c] = "idle"
    /\ startTime' = [startTime EXCEPT ![c] = now]
    /\ Return(c, extendErr("RPCRecentRevision failed: ", errorsNew("recent revision")))
    /\ UNCHANGED <<obligations, blockHeight, settings, now, so, finalIter, iter,
                   renter, vr, batch, tv, hdbVars, cfg>>

\* The top of the loop and the start of an iteration: the timeout is
\* evaluated, then the host sends its settings.
IterationStart(c) ==
    /\ pc[c] = "top"
    /\ LET final == TimeoutReached(startTime[c], now) IN
       /\ finalIter' = [finalIter EXCEPT ![c] = final]
       /\ \E sent \in BOOLEAN :
            IF sent
            THEN /\ iter' = [iter EXCEPT ![c] =
                        [IterationStartState EXCEPT !.out = <<SettingsMessage(settings)>>]]
                 /\ pc' = [pc EXCEPT ![c] = "awaitAck"]
                 /\ UNCHANGED <<ret, locked, unlocks, deferred>>
            ELSE IterationReturns(c,
                    extendErr("RPCSettings failed: ", ErrorConnection("io")),
                    IterationStartState, final)
    /\ UNCHANGED <<obligations, blockHeight, settings, now, so, startTime, renter, vr, batch, tv, hdbVars, cfg>>

\* modules.ReadNegotiationAcceptance yields an error: the renter's stop
\* token, the renter's rejection, or a failed read.
RenterDeclines(c) ==
    /\ pc[c] = "awaitAck"
    /\ \E e \in {ErrStopResponse, errorsNew("rejected"), errorsNew("io")} :
        IterationReturns(c, extendErr("renter rejected settings: ", e), iter[c],
                         finalIter[c])
    /\ UNCHANGED <<obligations, blockHeight, settings, now, so, startTime, finalIter, renter, vr, batch, tv, hdbVars, cfg>>

\* The renter accepted, but reading the modifications or the revision fails.
ReadFails(c) ==
    /\ pc[c] = "awaitAck"
    /\ \E prefix \in {"unable to read revision modifications: ",
                      "unable to read proposed revision: "} :
        IterationReturns(c, extendErr(prefix, ErrorConnection("io")), iter[c],
                         finalIter[c])
    /\ UNCHANGED <<obligations, blockHeight, settings, now, so, startTime, finalIter, renter, vr, batch, tv, hdbVars, cfg>>

\* The renter accepted and sent a batch and a revision: the host snapshots
\* its settings and block height, makes the modifications on so, verifies
\* the revision, and answers with a rejection or an acceptance.
Negotiate(c) ==
    /\ pc[c] = "awaitAck"
    /\ \E mods \in RenterBatches(renter), readable \in BOOLEAN :
        LET o == so[c]
            st == ApplyModifications(BatchStart(o.SectorRoots), mods, settings,
                                     blockHeight, o, readable)
            revisions ==
                IF st.err = nil
                THEN RenterRevisions(renter, LatestRevision(o), st.SectorRoots,
                        st.storageRevenue + st.bandwidthRevenue, st.newCollateral)
                ELSE LET h == HonestRevision(LatestRevision(o), st.SectorRoots, 0, 0)
                     IN  {h, [h EXCEPT !.NewRevisionNumber = @ - 1]}
        IN
        /\ readable \/ \E i \in 1..Len(mods) : mods[i].Type = "ActionModify"
        /\ Len(st.SectorRoots) <= MaxSectors
        /\ \E revision \in revisions :
            LET r == ApplyAndVerify(o, mods, revision, settings, blockHeight, readable)
                it == [iter[c] EXCEPT
                          !.revision = revision,
                          !.blockHeight = blockHeight,
                          !.storageRevenue = r.storageRevenue,
                          !.bandwidthRevenue = r.bandwidthRevenue,
                          !.newCollateral = r.newCollateral]
            IN
            /\ revision.NewRevisionNumber <= MaxRevisionNumber
            /\ so' = [so EXCEPT ![c].SectorRoots = r.SectorRoots]
            /\ IF r.err # nil
               THEN IterationReturns(c,
                        extendErr("rejected proposed modifications: ", r.err),
                        [it EXCEPT !.out = Append(@, Rejection(r.err))],
                        finalIter[c])
               ELSE \E written \in BOOLEAN :
                    IF written
                    THEN /\ iter' = [iter EXCEPT ![c] =
                                [it EXCEPT !.out = Append(@, RevisionAccepted)]]
                         /\ pc' = [pc EXCEPT ![c] = "readSig"]
                         /\ UNCHANGED <<ret, locked, unlocks, deferred>>
                    ELSE IterationReturns(c,
                            extendErr("could not accept revision modifications: ",
                                      ErrorConnection("io")), it, finalIter[c])
    /\ UNCHANGED <<obligations, blockHeight, settings, now, startTime, finalIter, renter, vr, batch, tv, hdbVars, cfg>>

ModifyFailed_Ignored(err) == FALSE

\* if err != nil after h.modifyStorageObligation
ModifyFailed(err) == err # nil

\* h.modifyStorageObligation(so, ...): the durable obligation becomes so.
ModifyStorageObligation(obls, o) == [obls EXCEPT ![o.id] = o]

\* The renter's signature is read, the host signs, the accumulators and the
\* revision transaction set of so are updated, and so is committed with
\* modifyStorageObligation.
SignAndCommit(c) ==
    /\ pc[c] = "readSig"
    /\ \E sigRead \in BOOLEAN, renterSig \in {"renterSig", "badSig"},
          modifyErr \in {nil, errorsNew("database")} :
        LET it == iter[c]
            txn == RevisionTransaction(it.revision, renterSig)
            newSo == [so[c] EXCEPT
                        !.PotentialStorageRevenue = @ + it.storageRevenue,
                        !.RiskedCollateral = @ + it.newCollateral,
                        !.PotentialUploadRevenue = @ + it.bandwidthRevenue,
                        !.RevisionTransactionSet = <<txn>>]
        IN
        IF ~sigRead
        THEN /\ renterSig = "renterSig" /\ modifyErr = nil
             /\ IterationReturns(c,
                    extendErr("could not read renter transaction signature: ",
                              ErrorConnection("io")), it, finalIter[c])
             /\ UNCHANGED <<obligations, so>>
        ELSE IF renterSig = "badSig"
        THEN /\ modifyErr = nil
             /\ IterationReturns(c,
                    extendErr("could not create revision signature: ",
                              errorsNew("invalid signature")),
                    [it EXCEPT !.out = Append(@, Rejection(errorsNew("invalid signature")))],
                    finalIter[c])
             /\ UNCHANGED <<obligations, so>>
        ELSE /\ so' = [so EXCEPT ![c] = newSo]
             /\ obligations' = IF modifyErr = nil
                               THEN ModifyStorageObligation(obligations, newSo)
                               ELSE obligations
             /\ IF ModifyFailed(modifyErr)
                THEN IterationReturns(c,
                        extendErr("could not modify storage obligation: ",
                                  ErrorInternal(modifyErr.msg[1])),
                        [it EXCEPT !.modifyCalled = TRUE,
                                   !.out = Append(@, Rejection(modifyErr))],
                        finalIter[c])
                ELSE /\ iter' = [iter EXCEPT ![c] =
                            [it EXCEPT !.modifyCalled = TRUE,
                                       !.committed = (modifyErr = nil)]]
                     /\ pc' = [pc EXCEPT ![c] = "signal"]
                     /\ UNCHANGED <<ret, locked, unlocks, deferred>>
    /\ UNCHANGED <<blockHeight, settings, now, startTime, finalIter, renter, vr, batch, tv, hdbVars, cfg>>

\* WriteNegotiationStop if finalIter, else WriteNegotiationAcceptance
SignalToken(final) == IF final THEN "stop" ELSE "accept"

\* The host sends the iteration signal, then its signature; the iteration
\* is over.
SendResult(c) ==
    /\ pc[c] = "signal"
    /\ \E signalSent \in BOOLEAN, sigSent \in BOOLEAN :
        LET it == iter[c]
            signalled == [it EXCEPT !.out =
                            Append(@, IterationSignal(SignalToken(finalIter[c])))]
        IN
        IF ~signalSent
        THEN /\ sigSent
             /\ IterationReturns(c,
                    extendErr("iteration signal failed to send: ", ErrorConnection("io")),
                    it, finalIter[c])
        ELSE IF ~sigSent
        THEN IterationReturns(c,
                extendErr("failed to write revision signatures: ", ErrorConnection("io")),
                signalled, finalIter[c])
        ELSE IterationReturns(c, nil,
                [signalled EXCEPT !.out = Append(@, HostSignature)], finalIter[c])
    /\ UNCHANGED <<obligations, blockHeight, settings, now, so, startTime, finalIter, renter, vr, batch, tv, hdbVars, cfg>>

-----------------------------------------------------------------------------
(* The environment *)

\* Time passes.
Tick ==
    /\ now < MaxTime
    /\ now' = now + 1
    /\ UNCHANGED <<obligations, locked, blockHeight, settings, connVars, vr, batch, tv, hdbVars, cfg>>

\* The consensus set reports a new block to the host.
BlockMined ==
    /\ blockHeight < MaxBlockHeight
    /\ blockHeight' = blockHeight + 1
    /\ UNCHANGED <<obligations, locked, settings, now, connVars, vr, batch, tv, hdbVars, cfg>>

\* The steps of the connections.
ConnNext ==
    \/ \E c \in Conns : RecentRevision(c)
    \/ \E c \in Conns : RecentRevisionFails(c)
    \/ \E c \in Conns : IterationStart(c)
    \/ \E c \in Conns : RenterDeclines(c)
    \/ \E c \in Conns : ReadFails(c)
    \/ \E c \in Conns : Negotiate(c)
    \/ \E c \in Conns : SignAndCommit(c)
    \/ \E c \in Conns : SendResult(c)

Next ==
    \/ ConnNext
    \/ Tick
    \/ BlockMined

Spec == Init /\ [][Next]_vars

\* Two connections while the clock and the chain stand still.
SpecConcurrent == InitConcurrent /\ [][ConnNext]_vars

\* ---- obligations that expire early in the chain ----

\* The obligation of a contract whose proof window starts at height start
\* and ends one block later.
EarlyObligation(id, start) ==
    [InitialObligation(id) EXCEPT
        !.Expiration = start,
        !.ProofDeadline = start + 1,
        !.RevisionTransactionSet =
            <<RevisionTransaction(
                [InitialRevision(id) EXCEPT !.NewWindowStart = start,
                                            !.NewWindowEnd = start + 1],
                "renterSig")>>]

\* One connection of a terse renter, to a host whose obligations expire at
\* a height from 0 on.
InitDeadlines ==
    /\ cfg = NoCall
    /\ \E start \in 0..(revisionSubmissionBuffer + 2) :
          obligations = [id \in ContractIDs |-> EarlyObligation(id, start)]
    /\ locked = {} /\ blockHeight = 0 /\ settings = HostSettings /\ now = 0
    /\ InitConns({"c1"}) /\ renter = "terse"
    /\ vr = NoCall /\ batch = NoCall /\ tv = NoCall /\ NoHostDB

NextDeadlines ==
    \/ ConnNext
    \/ BlockMined

SpecDeadlines == InitDeadlines /\ [][NextDeadlines]_vars

\* ---- the settings of the host changed while a renter revises ----

\* The settings after the change: a higher collateral.
ChangedSettings == [HostSettings EXCEPT !.Collateral = @ + 1]

\* Another thread of the host sets h.settings, under h.mu.
SettingsChanged ==
    /\ settings = HostSettings
    /\ settings' = ChangedSettings
    /\ UNCHANGED <<obligations, locked, blockHeight, now, connVars, vr, batch, tv, hdbVars, cfg>>

InitSettings ==
    /\ cfg = NoCall
    /\ InitHost /\ InitConns({"c1"}) /\ renter = "terse"
    /\ vr = NoCall /\ batch = NoCall /\ tv = NoCall /\ NoHostDB

NextSettings ==
    \/ ConnNext
    \/ SettingsChanged

SpecSettings == InitSettings /\ [][NextSettings]_vars

-----------------------------------------------------------------------------
(* A bare call of verifyRevision *)

\* One field of a revision made wrong, by the number of the field.
Perturbed(h, k) ==
    CASE k = 1 -> [h EXCEPT !.NewValidProofOutputs = Append(@, 0)]
      [] k = 2 -> [h EXCEPT !.NewMissedProofOutputs = SubSeq(@, 1, 2)]
      [] k = 3 -> [h EXCEPT !.ParentID = "fc0"]
      [] k = 4 -> [h EXCEPT !.UnlockConditions = "uc0"]
      [] k = 5 -> [h EXCEPT !.NewRevisionNumber = @ - 1]
      [] k = 6 -> [h EXCEPT !.NewRevisionNumber = @ - 2]
      [] k = 7 -> [h EXCEPT !.NewFileSize = U64(@ + SectorSize)]
      [] k = 8 -> [h EXCEPT !.NewWindowStart = U64(@ + 1)]
      [] k = 9 -> [h EXCEPT !.NewWindowEnd = U64(@ + 1)]
      [] k = 10 -> [h EXCEPT !.NewUnlockHash = "uh0"]
      [] k = 11 -> [h EXCEPT !.NewValidProofOutputs[1] = @ + 1]
      [] k = 12 -> [h EXCEPT !.NewValidProofOutputs[2] = @ + 1]
      [] k = 13 -> [h EXCEPT !.NewValidProofOutputs[2] = Monus(@, 1)]
      [] k = 14 -> [h EXCEPT !.NewMissedProofOutputs[1] = @ + 1]
      [] k = 15 -> [h EXCEPT !.NewMissedProofOutputs[2] = @ + 1]
      [] k = 16 -> [h EXCEPT !.NewMissedProofOutputs[2] = Monus(@, 1)]
      [] k = 17 -> [h EXCEPT !.NewFileMerkleRoot = <<"node", @, @>>]
      [] OTHER -> h

Perturbations == 0..17

\* The obligations verifyRevision is called with: the initial obligation of
\* a contract, holding the sector roots roots and expiring at height e.
VerifyObligation(roots, e) ==
    [InitialObligation("fc1") EXCEPT !.SectorRoots = roots, !.Expiration = e]

\* The calls of verifyRevision that are made: every expiration and block
\* height with the honest revision and every revision with one field wrong;
\* every revision with up to two fields wrong well before the expiration.
VerifyCalls ==
    LET rootLists == {<<>>, <<MerkleRoot([i \in 1..SectorSize |-> 0])>>}
        heights == 0..(WordModulus - 1)
        call(roots, e, h, rev, col, j, k) ==
            [state |-> "called",
             so |-> VerifyObligation(roots, e),
             revision |-> Perturbed(Perturbed(
                 HonestRevision(InitialRevision("fc1"), roots, rev, col), j), k),
             blockHeight |-> h, newRevenue |-> rev, newCollateral |-> col,
             err |-> nil]
    IN  {call(roots, e, h, SectorSize, SectorSize, 0, k) :
            roots \in rootLists, e \in heights, h \in heights, k \in Perturbations}
        \cup
        {call(roots, revisionSubmissionBuffer + 2, 0, rev, SectorSize, j, k) :
            roots \in rootLists, rev \in {0, SectorSize},
            j \in Perturbations, k \in Perturbations}

InitVerify ==
    /\ cfg = NoCall
    /\ InitHost /\ InitConns({}) /\ renter = "terse"
    /\ vr \in VerifyCalls
    /\ batch = NoCall /\ tv = NoCall /\ NoHostDB

\* verifyRevision is called and returns.
VerifyRevisionCall ==
    /\ vr.state = "called"
    /\ vr' = [vr EXCEPT
                !.state = "returned",
                !.err = verifyRevision(vr.so, vr.revision, vr.blockHeight,
                                       vr.newRevenue, vr.newCollateral)]
    /\ UNCHANGED <<hostVars, connVars, batch, tv, hdbVars, cfg>>

NextVerify == VerifyRevisionCall

SpecVerify == InitVerify /\ [][NextVerify]_vars

-----------------------------------------------------------------------------
(* A bare run of the modification loop of managedRevisionIteration *)

\* The modifications the loop is run on: every action, with sector indices
\* up to past the end of the list and the largest word, every offset (for an
\* ActionModify), data of every length up to one byte more than a sector.
LoopModifications ==
    LET indices == 0..(MaxSectors + 1) \cup {WordModulus - 1}
        data == {[k \in 1..n |-> 1] : n \in 0..(SectorSize + 1)}
                \cup {[k \in 1..SectorSize |-> 0]}
    IN  {Modification(t, i, 0, d) :
            t \in {"ActionInsert", "ActionDelete", "ActionUnknown"},
            i \in indices, d \in data}
        \cup
        {Modification("ActionModify", i, off, d) :
            i \in indices, off \in 0..(WordModulus - 1), d \in data}

\* What precedes the modification in its batch: nothing, or one modification
\* that inserts or modifies the first sector or deletes a sector.
LoopPrefixes ==
    {<<>>,
     <<Modification("ActionInsert", 0, 0, [k \in 1..SectorSize |-> 0])>>,
     <<Modification("ActionModify", 0, 0, <<1>>)>>}
    \cup {<<Modification("ActionDelete", i, 0, <<>>)>> : i \in 0..(MaxSectors - 1)}

\* The obligation the loop runs on: n sectors, of zeros and of ones in turn.
LoopObligation(n) ==
    [InitialObligation("fc1") EXCEPT
        !.SectorRoots = [k \in 1..n |->
                            MerkleRoot([j \in 1..SectorSize |-> (k + 1) % 2])]]

\* The settings of the host the loop runs in: three different prices.
LoopSettings ==
    [MinStoragePrice |-> 1, MinUploadBandwidthPrice |-> 2, Collateral |-> 3]

InitApply ==
    /\ cfg = NoCall
    /\ obligations = [id \in ContractIDs |-> InitialObligation(id)]
    /\ locked = {} /\ now = 0
    /\ blockHeight \in {0, 1}       \* both before the revision is late
    /\ settings = LoopSettings
    /\ InitConns({}) /\ renter = "terse"
    /\ vr = NoCall /\ tv = NoCall /\ NoHostDB
    /\ \E n \in 0..MaxSectors, pre \in LoopPrefixes, m \in LoopModifications,
          readable \in BOOLEAN :
            batch = [state |-> "running",
                     so |-> LoopObligation(n),
                     mods |-> pre \o <<m>>,
                     done |-> <<>>,
                     readable |-> readable,
                     st |-> BatchStart(LoopObligation(n).SectorRoots)]

\* One pass of the loop body, over the next modification of the batch.
ApplyNext ==
    /\ batch.state = "running"
    /\ batch.mods # <<>>
    /\ batch.st.err = nil
    /\ batch' = [batch EXCEPT
                    !.mods = Tail(@),
                    !.done = Append(@, Head(batch.mods)),
                    !.st = ApplyModification(batch.st, Head(batch.mods), settings,
                                             blockHeight, batch.so, batch.readable)]
    /\ UNCHANGED <<hostVars, connVars, vr, tv, hdbVars, cfg>>

\* The loop ends: no modification is left, or one has failed.
ApplyReturn ==
    /\ batch.state = "running"
    /\ batch.mods = <<>> \/ batch.st.err # nil
    /\ batch' = [batch EXCEPT !.state = "returned"]
    /\ UNCHANGED <<hostVars, connVars, vr, tv, hdbVars, cfg>>

NextApply == ApplyNext \/ ApplyReturn

SpecApply == InitApply /\ [][NextApply]_vars

-----------------------------------------------------------------------------
(* The consensus transaction validators *)

ErrDoubleSpend == errorsNew("ErrDoubleSpend")

\* The range over tx.CoinInputs (or tx.BlockStakeInputs) with the map of the
\* parent IDs met so far.
RECURSIVE SpendsTwice(_, _)
SpendsTwice(inputs, spent) ==
    IF inputs = <<>> THEN nil
    ELSE IF Head(inputs) \in spent THEN ErrDoubleSpend
    ELSE SpendsTwice(Tail(inputs), spent \cup {Head(inputs)})

ValidateDoubleCoinSpends_AcrossKinds(tx) ==
    SpendsTwice(tx.CoinInputs \o tx.BlockStakeInputs, {})

ValidateDoubleCoinSpends(tx) == SpendsTwice(tx.CoinInputs, {})

ValidateDoubleBlockStakeSpends(tx) == SpendsTwice(tx.BlockStakeInputs, {})

\* var sum types.Currency; for ... { sum = sum.Add(v) }
RECURSIVE Sum(_)
Sum(values) == IF values = <<>> THEN 0 ELSE Head(values) + Sum(Tail(values))

\* tx.CoinOutputSum(): all coin outputs and all miner fees.
CoinOutputSum(tx) == Sum(tx.CoinOutputs) + Sum(tx.MinerFees)

\* css.UnspentCoinOutputGet / css.UnspentBlockStakeOutputGet on a consensus
\* state that holds the unspent outputs as a function from their IDs.
UnspentOutputGet(unspent, id) ==
    IF id \in DOMAIN unspent
    THEN [value |-> unspent[id], err |-> nil]
    ELSE [value |-> 0, err |-> errorsNew("output not found")]

\* The loop over the inputs: the parents' values are added up until a parent
\* is not found.  what names the kind of output in the error.
RECURSIVE InputSum(_, _, _, _)
InputSum(inputs, unspent, sum, what) ==
    IF inputs = <<>> THEN [sum |-> sum, err |-> nil]
    ELSE LET got == UnspentOutputGet(unspent, Head(inputs)) IN
         IF got.err # nil
         THEN [sum |-> sum,
               err |-> [type |-> "error",
                        msg |-> <<"unable to find parent ID as an unspent " \o what,
                                  Head(inputs)>>]]
         ELSE InputSum(Tail(inputs), unspent, sum + got.value, what)

Unbalanced_Swapped(inputSum, outputSum, what) ==
    IF inputSum > outputSum
    THEN errorsNew("unbalanced " \o what \o "s: inputs less than outputs")
    ELSE IF inputSum < outputSum
    THEN errorsNew("unbalanced " \o what \o "s: inputs greater than outputs")
    ELSE nil

\* r := inputSum.Cmp(outputSum) and the two errors that follow it.
Unbalanced(inputSum, outputSum, what) ==
    IF inputSum < outputSum
    THEN errorsNew("unbalanced " \o what \o "s: inputs less than outputs")
    ELSE IF inputSum > outputSum
    THEN errorsNew("unbalanced " \o what \o "s: inputs greater than outputs")
    ELSE nil

ValidateCoinOutputsAreBalanced(tx, css) ==
    LET in == InputSum(tx.CoinInputs, css.coinOutputs, 0, "coin output") IN
    IF in.err # nil THEN in.err
    ELSE Unbalanced(in.sum, CoinOutputSum(tx), "coin output")

ValidateBlockStakeOutputsAreBalanced_WithFees(tx, css) ==
    LET in == InputSum(tx.BlockStakeInputs, css.blockStakeOutputs, 0,
                       "block stake output") IN
    IF in.err # nil THEN in.err
    ELSE Unbalanced(in.sum, Sum(tx.BlockStakeOutputs) + Sum(tx.MinerFees),
                    "block stake output")

ValidateBlockStakeOutputsAreBalanced(tx, css) ==
    LET in == InputSum(tx.BlockStakeInputs, css.blockStakeOutputs, 0,
                       "block stake output") IN
    IF in.err # nil THEN in.err
    ELSE Unbalanced(in.sum, Sum(tx.BlockStakeOutputs), "block stake output")

\* ---- the calls that are made ----

OutputIDs == {"a", "b", "c", "d"}

\* The consensus state: the unspent coin outputs and block stake outputs.
ConsensusState ==
    [coinOutputs |-> [id \in {"a", "b"} |-> IF id = "a" THEN 1 ELSE 2],
     blockStakeOutputs |-> [id \in {"a", "c"} |-> IF id = "a" THEN 2 ELSE 1]]

SeqsUpTo(S, n) == UNION {[1..k -> S] : k \in 0..n}

Transaction(ci, co, fees, bsi, bso) ==
    [CoinInputs |-> ci, CoinOutputs |-> co, MinerFees |-> fees,
     BlockStakeInputs |-> bsi, BlockStakeOutputs |-> bso]

\* The lists of inputs of one kind, of output values and of miner fees.
InputLists == SeqsUpTo(OutputIDs, MaxInputs)
OutputLists == SeqsUpTo(1..MaxValue, MaxOutputs)
FeeLists == SeqsUpTo(1..MaxValue, 1)

\* Inputs of the other kind, for the double spend validators.
FewInputLists == {<<>>, <<"a">>, <<"b", "b">>, <<"a", "b", "a">>}

\* Coin sides for the block stake validator: none, balanced ones, one with
\* a missing parent.
FewCoinSides ==
    {Transaction(<<>>, <<>>, <<>>, <<>>, <<>>),
     Transaction(<<"a">>, <<1>>, <<>>, <<>>, <<>>),
     Transaction(<<"a", "b">>, <<1>>, <<2>>, <<>>, <<>>),
     Transaction(<<"c">>, <<2>>, <<1>>, <<>>, <<>>)}

ValidatorCall(tx) ==
    [state |-> "called", tx |-> tx, css |-> ConsensusState,
     validator |-> "none", err |-> nil]

\* The transactions validated: every list of inputs of one kind with few
\* lists of the other kind; every coin side with no block stakes; every
\* block stake side with few coin sides.
InitValidate ==
    /\ cfg = NoCall
    /\ InitHost /\ InitConns({}) /\ renter = "terse"
    /\ vr = NoCall /\ batch = NoCall /\ NoHostDB
    /\ \/ \E ci \in InputLists \cup FewInputLists, bsi \in FewInputLists :
            tv = ValidatorCall(Transaction(ci, <<>>, <<>>, bsi, <<>>))
       \/ \E bsi \in InputLists \cup FewInputLists, ci \in FewInputLists :
            tv = ValidatorCall(Transaction(ci, <<>>, <<>>, bsi, <<>>))
       \/ \E ci \in InputLists, co \in OutputLists, f \in FeeLists :
            tv = ValidatorCall(Transaction(ci, co, f, <<>>, <<>>))
       \/ \E cs \in FewCoinSides, bsi \in InputLists, bso \in OutputLists :
            tv = ValidatorCall([cs EXCEPT !.BlockStakeInputs = bsi,
                                          !.BlockStakeOutputs = bso])

\* A validator is called on the transaction and returns.
Validated(validator, err) ==
    /\ tv.state = "called"
    /\ tv' = [tv EXCEPT !.state = "returned", !.validator = validator, !.err = err]
    /\ UNCHANGED <<hostVars, connVars, vr, batch, hdbVars, cfg>>

ValidateDoubleCoinSpendsCall ==
    Validated("ValidateDoubleCoinSpends", ValidateDoubleCoinSpends(tv.tx))

ValidateDoubleBlockStakeSpendsCall ==
    Validated("ValidateDoubleBlockStakeSpends", ValidateDoubleBlockStakeSpends(tv.tx))

ValidateCoinOutputsAreBalancedCall ==
    Validated("ValidateCoinOutputsAreBalanced",
              ValidateCoinOutputsAreBalanced(tv.tx, tv.css))

ValidateBlockStakeOutputsAreBalancedCall ==
    Validated("ValidateBlockStakeOutputsAreBalanced",
              ValidateBlockStakeOutputsAreBalanced(tv.tx, tv.css))

NextValidate ==
    \/ ValidateDoubleCoinSpendsCall
    \/ ValidateDoubleBlockStakeSpendsCall
    \/ ValidateCoinOutputsAreBalancedCall
    \/ ValidateBlockStakeOutputsAreBalancedCall

SpecValidate == InitValidate /\ [][NextValidate]_vars

-----------------------------------------------------------------------------
(* The weight of a host (calculateHostWeight) *)

\* 10^150 in the source; the model's integers allow 10^8.
baseWeight == 100000000

\* types.Currency.MulTax: the siafund portion (39 thousandths) of x, rounded
\* down.
MulTax(x) == (x * 39) \div 1000

\* ContractPrice.Div64(6048).Div64(10e9); 10e9 is 100000 * 100000.
adjustedContractPrice(entry) ==
    (((entry.ContractPrice \div 6048) \div 100000) \div 100000)

adjustedUploadPrice(entry) == entry.UploadBandwidthPrice \div 24192

adjustedDownloadPrice(entry) == entry.DownloadBandwidthPrice \div 12096

siafundFee(entry) ==
    MulTax(adjustedContractPrice(entry) + adjustedUploadPrice(entry)
           + adjustedDownloadPrice(entry) + entry.Collateral)

totalPrice(entry) ==
    entry.StoragePrice + adjustedContractPrice(entry) + adjustedUploadPrice(entry)
    + adjustedDownloadPrice(entry) + siafundFee(entry)

calculateHostWeight_NoCollateral(entry) ==
    IF totalPrice(entry) # 0
    THEN ((((baseWeight \div totalPrice(entry)) \div totalPrice(entry))
            \div totalPrice(entry)) \div totalPrice(entry)) \div totalPrice(entry)
    ELSE baseWeight

calculateHostWeight(entry) ==
    LET weight ==
            IF totalPrice(entry) # 0
            THEN ((((baseWeight \div totalPrice(entry)) \div totalPrice(entry))
                    \div totalPrice(entry)) \div totalPrice(entry))
                 \div totalPrice(entry)
            ELSE baseWeight
    IN  IF entry.Collateral = 0 THEN weight ELSE weight * entry.Collateral

\* ---- bare calls of calculateHostWeight ----

MaxPrice == 3

\* The collaterals of the entries weighed.
Collaterals == {0, 10, 20}

\* The settings the weight depends on; prices are whole multiples of the
\* amounts calculateHostWeight divides them by.
PricedSettings ==
    [StoragePrice : 0..MaxPrice,
     ContractPrice : {0, 604800000},
     UploadBandwidthPrice : {24192 * k : k \in 0..MaxPrice},
     DownloadBandwidthPrice : {12096 * k : k \in 0..MaxPrice}]

\* The entry with the given prices and collateral.
PricedEntry(prices, collateral) ==
    [StoragePrice |-> prices.StoragePrice,
     ContractPrice |-> prices.ContractPrice,
     UploadBandwidthPrice |-> prices.UploadBandwidthPrice,
     DownloadBandwidthPrice |-> prices.DownloadBandwidthPrice,
     Collateral |-> collateral]

InitWeight ==
    /\ cfg = NoCall
    /\ InitHost /\ InitConns({}) /\ renter = "terse"
    /\ vr = NoCall /\ batch = NoCall /\ tv = NoCall
    /\ hostEntries = <<>> /\ allHosts = <<>> /\ activeHosts = <<>>
    /\ producers = <<>> /\ scanPool = <<>> /\ workers = <<>>
    /\ driver = NoCall /\ closed = NoCall /\ exited = 0 /\ network = "none"
    /\ mu = NoCall
    /\ \E prices \in PricedSettings :
          hw = [state |-> "weighing", prices |-> prices,
                weight |-> [c \in Collaterals |-> <<>>]]

\* calculateHostWeight(entry) for the entry with collateral c.
CalculateHostWeightCall(c) ==
    /\ hw.state = "weighing"
    /\ hw.weight[c] = <<>>
    /\ hw' = [hw EXCEPT
                 !.weight[c] = <<calculateHostWeight(PricedEntry(hw.prices, c))>>]
    /\ UNCHANGED <<dbVars, producers, scanPool, workers, threadVars, mu>>
    /\ UNCHANGED <<hostVars, connVars, vr, batch, tv, cfg>>

NextWeight == \E c \in Collaterals : CalculateHostWeightCall(c)

SpecWeight == InitWeight /\ [][NextWeight]_vars

-----------------------------------------------------------------------------
(* The host database scanner (modules/renter/hostdb/scan.go) *)

NetAddresses == {"A", "B"}

\* The hostEntry objects there are, each at its address with its public key:
\* one per address, and a second one for address A, made from an announcement
\* with another public key.
EntryPointers == {"e1", "e2", "e3"}

NewHostEntry(e) ==
    [NetAddress |-> IF e = "e2" THEN "B" ELSE "A",
     StoragePrice |-> 0, ContractPrice |-> 0, UploadBandwidthPrice |-> 0,
     DownloadBandwidthPrice |-> 0, Collateral |-> 0,
     PublicKey |-> IF e = "e3" THEN "key2" ELSE "key1",
     Reliability |-> DefaultReliability,
     Weight |-> 0,
     Online |-> FALSE]

\* The settings a host answers a probe with; the address in them is the one
\* the host gives itself.
ProbedSettings ==
    [NetAddress |-> "self",
     StoragePrice |-> 1, ContractPrice |-> 0, UploadBandwidthPrice |-> 0,
     DownloadBandwidthPrice |-> 0, Collateral |-> 10]

\* entry.HostExternalSettings = newSettings
WithSettings(entry, newSettings) ==
    [f \in DOMAIN entry |->
        IF f \in DOMAIN newSettings THEN newSettings[f] ELSE entry[f]]

\* What a worker holds after its probe: the entry, and whether the probe
\* gave an error.
Probes == EntryPointers \X BOOLEAN

\* The workers of threadedProbeHosts that hold no entry.
IdleWorkers(held) ==
    LET Count[S \in SUBSET Probes] ==
            IF S = {} THEN 0
            ELSE LET p == CHOOSE x \in S : TRUE IN held[p] + Count[S \ {p}]
    IN  scanningThreads - Count[Probes] - exited

\* The maps hold a pointer for an address, or "none".
Keys(map) == {a \in DOMAIN map : map[a] # "none"}

\* The host database as the functions below take and return it.
HostDB == [hostEntries |-> hostEntries, allHosts |-> allHosts,
           activeHosts |-> activeHosts]

\* types.Currency.Sub: the difference, or x itself when the difference would
\* be negative.
CurrencySub(x, y) == IF x < y THEN x ELSE x - y

\* node.removeNode(); delete(hdb.activeHosts, addr)
RemoveNode(db, addr) == [db EXCEPT !.activeHosts[addr] = "none"]

\* hdb.insertNode(entry): a node for the entry, indexed by the entry's address.
InsertNode(db, e) ==
    [db EXCEPT !.activeHosts[db.hostEntries[e].NetAddress] = e]

decrementReliability_KeepsNode(db, addr, penalty) ==
    LET e == db.allHosts[addr] IN
    IF e = "none" THEN db
    ELSE
    LET decremented ==
            [db EXCEPT
                !.hostEntries[e].Reliability = CurrencySub(@, penalty),
                !.hostEntries[e].Online = FALSE]
    IN  IF decremented.hostEntries[e].Reliability = 0
        THEN [decremented EXCEPT !.allHosts[addr] = "none"]
        ELSE decremented

decrementReliability(db, addr, penalty) ==
    LET e == db.allHosts[addr] IN
    IF e = "none" THEN db
    ELSE
    LET decremented ==
            [db EXCEPT
                !.hostEntries[e].Reliability = CurrencySub(@, penalty),
                !.hostEntries[e].Online = FALSE]
        inactive ==
            IF decremented.activeHosts[addr] # "none"
            THEN RemoveNode(decremented, decremented.hostEntries[e].NetAddress)
            ELSE decremented
    IN  IF inactive.hostEntries[e].Reliability = 0
        THEN [inactive EXCEPT !.allHosts[addr] = "none"]
        ELSE inactive

RoomForNode_OneMore(exists, n) == exists \/ n <= maxActiveHosts

\* The test before hdb.insertNode.
RoomForNode(exists, n) == exists \/ n < maxActiveHosts

ResetReliability_Kept(entry) == entry

\* entry.Reliability = MaxReliability
ResetReliability(entry) == [entry EXCEPT !.Reliability = MaxReliability]

SamePublicKey_Always(db, priorHost, e) == TRUE

\* bytes.Equal(priorHost.PublicKey.Key, entry.PublicKey.Key)
SamePublicKey(db, priorHost, e) ==
    db.hostEntries[priorHost].PublicKey = db.hostEntries[e].PublicKey

\* managedUpdateEntry(entry, newSettings, netErr) on the database db, with
\* the lock held from its first line to its return.
managedUpdateEntry(db, e, newSettings, netErr) ==
    LET addr == db.hostEntries[e].NetAddress
        priorHost == db.allHosts[addr]
        exists == priorHost # "none"
        added == IF exists THEN db ELSE [db EXCEPT !.allHosts[addr] = e]
    IN
    IF netErr
    THEN IF exists /\ SamePublicKey(db, priorHost, e)
         THEN decrementReliability(added, addr, UnreachablePenalty)
         ELSE added
    ELSE
    LET removed == IF added.activeHosts[addr] # "none"
                   THEN RemoveNode(added, addr) ELSE added
        settled == WithSettings(removed.hostEntries[e],
                                [newSettings EXCEPT
                                    !.NetAddress = removed.hostEntries[e].NetAddress])
        reliable == ResetReliability(settled)
        weighed == [reliable EXCEPT !.Weight = calculateHostWeight(reliable)]
        updated == [removed EXCEPT
                       !.hostEntries[e] = [weighed EXCEPT !.Online = TRUE]]
    IN  IF RoomForNode(updated.activeHosts[addr] # "none",
                       Cardinality(Keys(updated.activeHosts)))
        THEN InsertNode(updated, e)
        ELSE updated

\* ---- the goroutines ----

\* The number of pointers a channel or a set of goroutines holds.
Held(pool) ==
    LET Count[S \in SUBSET EntryPointers] ==
            IF S = {} THEN 0
            ELSE LET e == CHOOSE x \in S : TRUE IN pool[e] + Count[S \ {e}]
    IN  Count[EntryPointers]

\* threadedScan is in its select, the lock is free.
Sleeping == [pc |-> "sleeping", left |-> {}]

\* hdb.mu is free: no worker of threadedProbeHosts reads an entry under the
\* read lock, probes a host or saves.
Unlocked ==
    [writer |-> "none", saving |-> FALSE,
     reading |-> [e \in EntryPointers |-> 0],
     dials |-> [p \in Probes |-> 0]]

\* A database of two hosts; the pointer e3 waits to be sent to the workers
\* or not.
InitHostDBWith(answers, stales) ==
    /\ network \in answers
    /\ hostEntries = [e \in EntryPointers |-> NewHostEntry(e)]
    /\ allHosts = [a \in NetAddresses |-> IF a = "A" THEN "e1" ELSE "e2"]
    /\ activeHosts = [a \in NetAddresses |-> "none"]
    /\ \E stale \in stales :
          producers = [e \in EntryPointers |-> IF e = "e3" THEN stale ELSE 0]
    /\ scanPool = [e \in EntryPointers |-> 0]
    /\ workers = [p \in Probes |-> 0]
    /\ driver = Sleeping
    /\ closed = [closeChan |-> FALSE, scanPool |-> FALSE]
    /\ exited = 0
    /\ hw = NoCall
    /\ mu = Unlocked

InitScan ==
    /\ cfg = NoCall
    /\ InitHost /\ InitConns({}) /\ renter = "terse"
    /\ vr = NoCall /\ batch = NoCall /\ tv = NoCall
    /\ InitHostDBWith({"unsteady"}, 0..1)

\* The errors the probe of a host may give: none when the hosts are up, one
\* when they are down.
ProbeErrors ==
    IF network = "up" THEN {FALSE} ELSE IF network = "down" THEN {TRUE} ELSE BOOLEAN

scanHostEntry_Sends(queues, e) ==
    IF Held(queues.scanPool) < scanPoolSize
    THEN {[queues EXCEPT !.scanPool[e] = @ + 1]}
    ELSE {}

\* hdb.scanHostEntry(entry): what the call may leave of the goroutines and
\* the channel. It starts a goroutine that will send the pointer, and
\* returns.
scanHostEntry(queues, e) == {[queues EXCEPT !.producers[e] = @ + 1]}

RoundHosts_EveryInactive ==
    {{activeHosts[a] : a \in Keys(activeHosts)}
     \cup {allHosts[a] : a \in Keys(allHosts) \ Keys(activeHosts)}}

\* The hosts a round of threadedScan may enqueue: every active host, and the
\* first inactiveHostCheckupQuantity hosts of a random order of the hosts of
\* allHosts whose address is not active (crypto.Perm giving an order).
RoundHosts ==
    LET active == {activeHosts[a] : a \in Keys(activeHosts)}
        entries == {allHosts[a] : a \in Keys(allHosts) \ Keys(activeHosts)}
        quantity == IF Cardinality(entries) < inactiveHostCheckupQuantity
                    THEN Cardinality(entries) ELSE inactiveHostCheckupQuantity
    IN  {active \cup chosen :
            chosen \in {c \in SUBSET entries : Cardinality(c) = quantity}}

\* No entry of the set waits MaxQueued times already.
Queueable(hosts) ==
    \A e \in hosts : producers[e] + scanPool[e] < MaxQueued

\* All the calls of scanHostEntry of a round.
RECURSIVE EnqueueAll(_, _)
EnqueueAll(queues, hosts) ==
    IF hosts = {} THEN {queues}
    ELSE LET e == CHOOSE x \in hosts : TRUE IN
         UNION {EnqueueAll(q, hosts \ {e}) : q \in scanHostEntry(queues, e)}

\* One round of threadedScan, from Lock to Unlock; with the lock held, none
\* of the workers sees a part of it.
ScanRound ==
    /\ driver.pc = "sleeping"
    /\ \E hosts \in RoundHosts :
        /\ Queueable(hosts)
        /\ \E q \in EnqueueAll([producers |-> producers, scanPool |-> scanPool],
                               hosts) :
              /\ producers' = q.producers
              /\ scanPool' = q.scanPool
    /\ UNCHANGED <<dbVars, workers, threadVars, hw, mu>>
    /\ UNCHANGED <<hostVars, connVars, vr, batch, tv, cfg>>

\* The goroutine of scanHostEntry sends its pointer when the channel has
\* room.
Send(e) ==
    /\ producers[e] > 0
    /\ ~closed.scanPool
    /\ Held(scanPool) < scanPoolSize
    /\ producers' = [producers EXCEPT ![e] = @ - 1]
    /\ scanPool' = [scanPool EXCEPT ![e] = @ + 1]
    /\ UNCHANGED <<dbVars, workers, threadVars, hw, mu>>
    /\ UNCHANGED <<hostVars, connVars, vr, batch, tv, cfg>>

\* A worker of threadedProbeHosts receives an entry from the scan pool and
\* asks the host for its settings; the host answers, or the probe gives an
\* error (netErr). The worker reads the entry's address and key under the
\* read lock; it has the lock when it has the one of managedUpdateEntry.
ProbeHost ==
    /\ IdleWorkers(workers) > 0
    /\ \E e \in EntryPointers, netErr \in ProbeErrors :
        /\ scanPool[e] > 0
        /\ scanPool' = [scanPool EXCEPT ![e] = @ - 1]
        /\ workers' = [workers EXCEPT ![<<e, netErr>>] = @ + 1]
    /\ UNCHANGED <<dbVars, producers, threadVars, hw, mu>>
    /\ UNCHANGED <<hostVars, connVars, vr, batch, tv, cfg>>

\* A worker holds the result of its probe of entry e, and the lock is free.
CanUpdate(e, netErr) ==
    /\ workers[<<e, netErr>>] > 0
    /\ driver.pc # "enqueuing"

\* A worker that probed entry e calls managedUpdateEntry with the settings
\* the host gave, or with the error of the probe; the call waits for the
\* lock.
ManagedUpdateEntry(e, netErr) ==
    /\ CanUpdate(e, netErr)
    /\ LET db == managedUpdateEntry(HostDB, e, ProbedSettings, netErr) IN
        /\ hostEntries' = db.hostEntries
        /\ allHosts' = db.allHosts
        /\ activeHosts' = db.activeHosts
    /\ workers' = [workers EXCEPT ![<<e, netErr>>] = @ - 1]
    /\ UNCHANGED <<producers, scanPool, threadVars, hw, mu>>
    /\ UNCHANGED <<hostVars, connVars, vr, batch, tv, cfg>>

Workers ==
    \/ \E e \in EntryPointers : Send(e)
    \/ ProbeHost
    \/ \E e \in EntryPointers, netErr \in BOOLEAN : ManagedUpdateEntry(e, netErr)

\* Send(e) and, at once, ProbeHost for the entry sent: the way of an entry
\* from its goroutine to a worker, for whoever does not look at the channel.
SendAndProbe ==
    /\ IdleWorkers(workers) > 0
    /\ ~closed.scanPool
    /\ Held(scanPool) < scanPoolSize
    /\ \E e \in EntryPointers, netErr \in ProbeErrors :
        /\ producers[e] > 0
        /\ producers' = [producers EXCEPT ![e] = @ - 1]
        /\ workers' = [workers EXCEPT ![<<e, netErr>>] = @ + 1]
    /\ UNCHANGED <<dbVars, scanPool, threadVars, hw, mu>>
    /\ UNCHANGED <<hostVars, connVars, vr, batch, tv, cfg>>

\* The scanner as the users of the database see it: what happens under the
\* lock in one step, and nothing of the channel.
NextScan ==
    \/ ScanRound
    \/ SendAndProbe
    \/ \E e \in EntryPointers, netErr \in BOOLEAN : ManagedUpdateEntry(e, netErr)

SpecScan == InitScan /\ [][NextScan]_vars

\* ---- the scan driver step by step, and the closing of the database ----

\* threadedScan takes the lock and determines whom to scan.
RoundLock ==
    /\ driver.pc = "ready"
    /\ \E hosts \in RoundHosts :
        /\ Queueable(hosts)
        /\ driver' = [pc |-> "enqueuing", left |-> hosts]
    /\ UNCHANGED <<dbVars, producers, scanPool, workers, closed, exited, network, hw, mu>>
    /\ UNCHANGED <<hostVars, connVars, vr, batch, tv, cfg>>

\* One call of scanHostEntry of the round.
RoundEnqueue ==
    /\ driver.pc = "enqueuing"
    /\ \E e \in driver.left :
        \E q \in scanHostEntry([producers |-> producers, scanPool |-> scanPool], e) :
            /\ producers' = q.producers
            /\ scanPool' = q.scanPool
            /\ driver' = [driver EXCEPT !.left = @ \ {e}]
    /\ UNCHANGED <<dbVars, workers, closed, exited, network, hw, mu>>
    /\ UNCHANGED <<hostVars, connVars, vr, batch, tv, cfg>>

\* The round is over: the deferred Unlock, and the select, which returns at
\* once when closeChan is closed already.
RoundUnlock ==
    /\ driver.pc = "enqueuing"
    /\ driver.left = {}
    /\ driver' = IF closed.closeChan THEN [pc |-> "returned", left |-> {}]
                 ELSE Sleeping
    /\ UNCHANGED <<dbVars, producers, scanPool, workers, closed, exited, network, hw, mu>>
    /\ UNCHANGED <<hostVars, connVars, vr, batch, tv, cfg>>

\* select: the time of the sleep is over.
Wake ==
    /\ driver.pc = "sleeping"
    /\ driver' = [pc |-> "ready", left |-> {}]
    /\ UNCHANGED <<dbVars, producers, scanPool, workers, closed, exited, network, hw, mu>>
    /\ UNCHANGED <<hostVars, connVars, vr, batch, tv, cfg>>

DriverReturn_NoCloseCase ==
    /\ FALSE
    /\ UNCHANGED vars

\* select: closeChan is closed.
DriverReturn ==
    /\ driver.pc = "sleeping"
    /\ closed.closeChan
    /\ driver' = [pc |-> "returned", left |-> {}]
    /\ UNCHANGED <<dbVars, producers, scanPool, workers, closed, exited, network, hw, mu>>
    /\ UNCHANGED <<hostVars, connVars, vr, batch, tv, cfg>>

Driver == RoundLock \/ RoundEnqueue \/ RoundUnlock \/ DriverReturn

\* The database is being closed: closeChan is closed.
Close ==
    /\ ~closed.closeChan
    /\ closed' = [closed EXCEPT !.closeChan = TRUE]
    /\ UNCHANGED <<dbVars, producers, scanPool, workers, driver, exited, network, hw, mu>>
    /\ UNCHANGED <<hostVars, connVars, vr, batch, tv, cfg>>

\* The probe channel is closed, once the driver has returned and every
\* goroutine of scanHostEntry has sent.
ClosePool ==
    /\ closed.closeChan /\ ~closed.scanPool
    /\ driver.pc = "returned"
    /\ Held(producers) = 0
    /\ closed' = [closed EXCEPT !.scanPool = TRUE]
    /\ UNCHANGED <<dbVars, producers, scanPool, workers, driver, exited, network, hw, mu>>
    /\ UNCHANGED <<hostVars, connVars, vr, batch, tv, cfg>>

\* for hostEntry := range hdb.scanPool ends for a worker: the channel is
\* closed and empty.
WorkerExit ==
    /\ IdleWorkers(workers) > 0
    /\ closed.scanPool
    /\ Held(scanPool) = 0
    /\ exited' = exited + 1
    /\ UNCHANGED <<dbVars, producers, scanPool, workers, driver, closed, network, hw, mu>>
    /\ UNCHANGED <<hostVars, connVars, vr, batch, tv, cfg>>

InitThreads ==
    /\ cfg = NoCall
    /\ InitHost /\ InitConns({}) /\ renter = "terse"
    /\ vr = NoCall /\ batch = NoCall /\ tv = NoCall
    /\ InitHostDBWith({"up", "down"}, {0})

NextThreads ==
    \/ Driver
    \/ Wake
    \/ Workers
    \/ Close
    \/ ClosePool
    \/ WorkerExit

\* The goroutines are scheduled and the probes end; when the sleep ends and
\* when the database is closed is not the scanner's to say.
FairThreads ==
    /\ WF_vars(Driver)
    /\ WF_vars(\E e \in EntryPointers : Send(e))
    /\ WF_vars(ProbeHost)
    \* weak fairness of managedUpdateEntry, which is enabled when CanUpdate
    /\ \/ []<>(~\E e \in EntryPointers, netErr \in BOOLEAN : CanUpdate(e, netErr))
       \/ []<><<\E e \in EntryPointers, netErr \in BOOLEAN :
                    ManagedUpdateEntry(e, netErr)>>_vars
    /\ WF_vars(ClosePool)
    /\ WF_vars(WorkerExit)

SpecThreads == InitThreads /\ [][NextThreads]_vars /\ FairThreads

\* ---- the lock hdb.mu and what the workers do with and without it ----

\* The workers in their dial and settings read.
Dialing(m) == scanningThreads - exited - IdleWorkers(m.dials)

\* The read locks held: by the workers that read their entry, and by the
\* workers that probe a host with the read lock (<<e, TRUE>>).
ReadLocks(m) ==
    LET Count[S \in SUBSET EntryPointers] ==
            IF S = {} THEN 0
            ELSE LET e == CHOOSE x \in S : TRUE
                 IN  m.dials[<<e, TRUE>>] + Count[S \ {e}]
    IN  Held(m.reading) + Count[EntryPointers]

\* The workers that hold no entry, those of mu counted.
FreeWorkers ==
    IdleWorkers(workers) - Held(mu.reading) - Dialing(mu)
        - (IF mu.saving THEN 1 ELSE 0)

\* The round of threadedScan, which takes the write lock.
LockedRound ==
    /\ mu.writer = "none" /\ ReadLocks(mu) = 0
    /\ ScanRound

\* A worker receives an entry from the scan pool and takes the read lock to
\* read the entry's address and key.
ProbeRLock(e) ==
    /\ FreeWorkers > 0
    /\ mu.writer = "none"
    /\ scanPool[e] > 0
    /\ scanPool' = [scanPool EXCEPT ![e] = @ - 1]
    /\ mu' = [mu EXCEPT !.reading[e] = @ + 1]
    /\ UNCHANGED <<dbVars, producers, workers, threadVars, hw>>
    /\ UNCHANGED <<hostVars, connVars, vr, batch, tv, cfg>>

RUnlock_AfterProbe(m, e) ==
    [m EXCEPT !.reading[e] = @ - 1, !.dials[<<e, TRUE>>] = @ + 1]

\* hdb.mu.RUnlock() of the worker that read entry e, which goes on to dial:
\* it dials without the read lock (<<e, FALSE>>).
RUnlock(m, e) ==
    [m EXCEPT !.reading[e] = @ - 1, !.dials[<<e, FALSE>>] = @ + 1]

\* The worker gives the read lock back and dials the host.
ProbeDial(e) ==
    /\ mu.reading[e] > 0
    /\ mu' = RUnlock(mu, e)
    /\ UNCHANGED <<dbVars, producers, scanPool, workers, threadVars, hw>>
    /\ UNCHANGED <<hostVars, connVars, vr, batch, tv, cfg>>

\* The dial, the write of the RPC ID and the read of the settings end, with
\* the settings or with an error.
ProbeDialled(e) ==
    /\ \E held \in BOOLEAN, netErr \in ProbeErrors :
        /\ mu.dials[<<e, held>>] > 0
        /\ mu' = [mu EXCEPT !.dials[<<e, held>>] = @ - 1]
        /\ workers' = [workers EXCEPT ![<<e, netErr>>] = @ + 1]
    /\ UNCHANGED <<dbVars, producers, scanPool, threadVars, hw>>
    /\ UNCHANGED <<hostVars, connVars, vr, batch, tv, cfg>>

\* managedUpdateEntry from Lock to the call of save; when the probe gave an
\* error it returns before, and the deferred Unlock gives the lock back.
LockedUpdate(e, netErr) ==
    /\ workers[<<e, netErr>>] > 0
    /\ mu.writer = "none" /\ ReadLocks(mu) = 0
    /\ LET db == managedUpdateEntry(HostDB, e, ProbedSettings, netErr) IN
        /\ hostEntries' = db.hostEntries
        /\ allHosts' = db.allHosts
        /\ activeHosts' = db.activeHosts
    /\ workers' = [workers EXCEPT ![<<e, netErr>>] = @ - 1]
    /\ mu' = IF netErr THEN mu
             ELSE [mu EXCEPT !.writer = "worker", !.saving = TRUE]
    /\ UNCHANGED <<producers, scanPool, threadVars, hw>>
    /\ UNCHANGED <<hostVars, connVars, vr, batch, tv, cfg>>

\* hdb.save() ends and managedUpdateEntry returns: the deferred Unlock.
Save ==
    /\ mu.saving
    /\ mu' = [mu EXCEPT !.writer = "none", !.saving = FALSE]
    /\ UNCHANGED <<dbVars, producers, scanPool, workers, threadVars, hw>>
    /\ UNCHANGED <<hostVars, connVars, vr, batch, tv, cfg>>

InitLocks ==
    /\ cfg = NoCall
    /\ InitHost /\ InitConns({}) /\ renter = "terse"
    /\ vr = NoCall /\ batch = NoCall /\ tv = NoCall
    /\ InitHostDBWith({"unsteady"}, {0})

NextLocks ==
    \/ LockedRound
    \/ \E e \in EntryPointers : Send(e)
    \/ \E e \in EntryPointers : ProbeRLock(e)
    \/ \E e \in EntryPointers : ProbeDial(e)
    \/ \E e \in EntryPointers : ProbeDialled(e)
    \/ \E e \in EntryPointers, netErr \in BOOLEAN : LockedUpdate(e, netErr)
    \/ Save

SpecLocks == InitLocks /\ [][NextLocks]_vars


-----------------------------------------------------------------------------
(* Properties *)

\* The call of connection c holds a locked obligation and has not returned.
InLoop(c) == pc[c] \in {"top", "awaitAck", "readSig", "signal"}

\* The messages of the given kind the host wrote in c's current iteration.
Written(it, what) == {i \in 1..Len(it.out) : it.out[i].what = what}

\* The innermost message of an error: the sentinel it was extended from.
Cause(err) == IF err.msg = <<>> THEN "" ELSE err.msg[Len(err.msg)]

\* The first prefix of an error: the step of the iteration that failed.
FailedStep(err) == IF err.msg = <<>> THEN "" ELSE Head(err.msg)

\* C1: in every iteration the host writes the iteration signal
\* (acceptance or stop) and its signature only after
\* modifyStorageObligation has returned success in that iteration; when
\* modifyStorageObligation fails, the iteration writes neither.
C1_CommitBeforeSignature ==
    \A c \in Conns :
        /\ (Written(iter[c], "iterationSignal") \cup Written(iter[c], "signature")) # {}
              => iter[c].committed
        /\ (iter[c].modifyCalled /\ ~iter[c].committed)
              => /\ Written(iter[c], "signature") = {}
                 /\ pc[c] = "done"

C1_Witness ==
    \E c \in Conns :
        /\ iter[c].committed
        /\ Written(iter[c], "signature") # {}
        /\ Written(iter[c], "iterationSignal") # {}

\* C2: when a modification of the batch or verifyRevision fails, the host
\* writes a rejection carrying the error, modifyStorageObligation is not
\* called, the durable obligations are what they were, the call returns an
\* error, and no later iteration runs on the connection (a returned call
\* stays returned).
C2_RejectionLeavesObligation ==
    [][\A c \in Conns :
        /\ (pc[c] = "awaitAck"
              /\ FailedStep(iter'[c].err) = "rejected proposed modifications: ")
            => /\ Len(iter'[c].out) > 0
               /\ iter'[c].out[Len(iter'[c].out)].what = "rejection"
               /\ extendErr("rejected proposed modifications: ",
                            iter'[c].out[Len(iter'[c].out)].err) = iter'[c].err
               /\ ~iter'[c].modifyCalled
               /\ ~iter'[c].committed
               /\ obligations' = obligations
               /\ pc'[c] = "done"
               /\ ret'[c] = extendErr("revision iteration failed: ", iter'[c].err)
               /\ ret'[c] # nil
        /\ pc[c] = "done" => pc'[c] = "done"
      ]_vars

\* A rejection in an iteration that follows a committed one.
C2_Witness ==
    \E c \in Conns :
        /\ pc[c] = "done"
        /\ FailedStep(iter[c].err) = "rejected proposed modifications: "
        /\ Cause(iter[c].err) = "errBadFileMerkleRoot"
        /\ LatestRevision(obligations[so[c].id]).NewRevisionNumber > 1

\* C3: every durable obligation has len(SectorRoots) * SectorSize equal to
\* the NewFileSize of its latest revision, and the Merkle root over its
\* SectorRoots equal to that revision's NewFileMerkleRoot.
C3_SizeAndRootMatchRevision ==
    \A id \in ContractIDs :
        LET o == obligations[id]
            rev == LatestRevision(o)
        IN  /\ Len(o.SectorRoots) * SectorSize = rev.NewFileSize
            /\ CachedTreeRoot(o.SectorRoots) = rev.NewFileMerkleRoot

\* An obligation committed twice that holds two sectors.
C3_Witness ==
    \E id \in ContractIDs :
        /\ Len(obligations[id].SectorRoots) = 2
        /\ LatestRevision(obligations[id]).NewRevisionNumber > 2

\* The earlier predicates of verifyRevision hold of a proposed revision:
\* output counts, lateness, parent ID, unlock conditions.
EarlierThanRevisionNumber(o, revision, height) ==
    /\ Len(revision.NewValidProofOutputs) = 2
    /\ Len(revision.NewMissedProofOutputs) = 3
    /\ ~LateRevision(o, height)
    /\ LatestRevision(o).ParentID = revision.ParentID
    /\ UnlockHash(LatestRevision(o).UnlockConditions) = UnlockHash(revision.UnlockConditions)

ModificationErrors ==
    {"errBadModificationIndex", "errLargeSector", "errBadSectorSize",
     "errIllegalOffsetAndLength", "errUnknownModification", "read"}

\* C4: whenever a durable obligation changes, the revision number of its
\* latest revision grows strictly and the parent ID and the unlock hash of
\* the unlock conditions stay; and a proposed revision whose number is not
\* above the current one is rejected and nothing is committed, the error
\* being errBadRevisionNumber whenever the batch applies and the predicates
\* that verifyRevision tests before the revision number hold.
C4_RevisionChain ==
    [][/\ \A id \in ContractIDs :
            obligations'[id] # obligations[id] =>
                LET old == LatestRevision(obligations[id])
                    new == LatestRevision(obligations'[id])
                IN  /\ new.NewRevisionNumber > old.NewRevisionNumber
                    /\ new.ParentID = old.ParentID
                    /\ UnlockHash(new.UnlockConditions) = UnlockHash(old.UnlockConditions)
       /\ \A c \in Conns :
            (/\ pc[c] = "awaitAck"
             /\ iter'[c].revision # NoRevision
             /\ iter'[c].revision.NewRevisionNumber
                    <= LatestRevision(so[c]).NewRevisionNumber)
            => /\ pc'[c] = "done"
               /\ ret'[c] # nil
               /\ Written(iter'[c], "rejection") # {}
               /\ ~iter'[c].modifyCalled
               /\ obligations' = obligations
               /\ \/ Cause(ret'[c]) = "errBadRevisionNumber"
                  \/ Cause(ret'[c]) \in ModificationErrors
                  \/ ~EarlierThanRevisionNumber(so[c], iter'[c].revision, blockHeight)
      ]_vars

\* A stale revision refused with errBadRevisionNumber after two commits.
C4_Witness ==
    \E c \in Conns :
        /\ pc[c] = "done"
        /\ Cause(ret[c]) = "errBadRevisionNumber"
        /\ iter[c].revision.NewRevisionNumber = 3
        /\ LatestRevision(obligations[so[c].id]).NewRevisionNumber = 3

\* C5: when the renter answers the settings with a stop token,
\* managedRPCReviseContract returns nil, and the iteration commits nothing.
C5_StopReturnsNil ==
    \A c \in Conns :
        (pc[c] = "done" /\ Cause(iter[c].err) = "ErrStopResponse")
            => (ret[c] = nil /\ ~iter[c].modifyCalled)

\* C6: once managedRPCRecentRevision has handed over a locked obligation,
\* the lock is held until the call returns, and every return, by whatever
\* path, releases it exactly once.
C6_UnlockOnEveryReturn ==
    \A c \in Conns :
        /\ InLoop(c) => (so[c].id \in locked /\ unlocks[c] = 0)
        /\ (pc[c] = "done" /\ so[c] # NoObligation)
              => /\ unlocks[c] = 1
                 /\ \/ so[c].id \notin locked
                    \/ \E d \in Conns \ {c} : InLoop(d) /\ so[d].id = so[c].id
        /\ (pc[c] = "done" /\ so[c] = NoObligation) => unlocks[c] = 0

\* A return after modifyStorageObligation failed.
C6_Witness ==
    \E c \in Conns :
        /\ pc[c] = "done"
        /\ unlocks[c] = 1
        /\ FailedStep(iter[c].err) = "could not modify storage obligation: "
        /\ so[c].id \notin locked

\* C7: two connections are never inside the revision loop on the same
\* contract ID, and while a connection is inside the loop the durable
\* obligation is the one it read or committed itself: no other connection
\* commits in between.  (The witness: connections on different contract IDs
\* are inside their loops together.)
C7_OneConnectionPerObligation ==
    /\ \A c \in Conns : \A d \in Conns \ {c} :
            (InLoop(c) /\ InLoop(d)) => so[c].id # so[d].id
    /\ \A c \in Conns :
            InLoop(c) =>
                /\ so[c].id \in locked
                /\ iter[c].modifyCalled \/
                      LatestRevision(obligations[so[c].id]) = LatestRevision(so[c])
                /\ iter[c].committed =>
                      LatestRevision(obligations[so[c].id]) = LatestRevision(so[c])

\* Two connections in the middle of their iterations on different
\* contracts, one of which has committed.
C7_Witness ==
    /\ pc["c1"] = "readSig"
    /\ pc["c2"] = "signal"
    /\ so["c1"].id # so["c2"].id

\* C8: an iteration is started with finalIter exactly when, at the top of
\* the loop, the time elapsed since startTime exceeds
\* iteratedConnectionTime; the iteration signal is Stop in a final
\* iteration and Acceptance in any other; after a final iteration the call
\* returns and starts no further iteration; after a successful iteration
\* that is not final the call is back at the top of the loop.
C8_FinalIteration ==
    [][\A c \in Conns :
        /\ (pc[c] = "top" /\ pc'[c] # "top")
              => (finalIter'[c] <=> (now - startTime[c] > iteratedConnectionTime))
        /\ \A i \in Written(iter'[c], "iterationSignal") :
              iter'[c].out[i].token = (IF finalIter'[c] THEN "stop" ELSE "accept")
        /\ (pc[c] = "signal" /\ Written(iter'[c], "signature") # {})
              => IF finalIter[c]
                 THEN pc'[c] = "done" /\ ret'[c] = nil
                 ELSE pc'[c] = "top"
        /\ (pc[c] # "top" /\ pc'[c] = "top")
              => /\ ~finalIter[c]
                 /\ pc[c] \in {"idle", "signal"}
                 /\ pc[c] = "signal" => Written(iter'[c], "signature") # {}
        /\ pc[c] \in {"awaitAck", "readSig", "signal"} => finalIter'[c] = finalIter[c]
      ]_vars

\* A call that returned nil after a second, final iteration that sent Stop
\* and the signature.
C8_Witness ==
    \E c \in Conns :
        /\ pc[c] = "done"
        /\ ret[c] = nil
        /\ finalIter[c]
        /\ \E i \in Written(iter[c], "iterationSignal") : iter[c].out[i].token = "stop"
        /\ Written(iter[c], "signature") # {}
        /\ LatestRevision(obligations[so[c].id]).NewRevisionNumber > 2

\* The call of verifyRevision has returned, for a revision with two valid
\* and three missed proof outputs.
VerifiedWellFormed ==
    /\ vr.state = "returned"
    /\ Len(vr.revision.NewValidProofOutputs) = 2
    /\ Len(vr.revision.NewMissedProofOutputs) = 3

\* C9: verifyRevision returns errLateRevision for a (well-formed) revision
\* at block height expiration - revisionSubmissionBuffer, and does not
\* return errLateRevision one block earlier.
C9_LateAtBuffer ==
    VerifiedWellFormed =>
        /\ vr.blockHeight = expiration(vr.so) - revisionSubmissionBuffer
              => vr.err = errLateRevision
        /\ vr.blockHeight = expiration(vr.so) - revisionSubmissionBuffer - 1
              => vr.err # errLateRevision

C9_Witness ==
    /\ VerifiedWellFormed
    /\ vr.blockHeight = expiration(vr.so) - revisionSubmissionBuffer
    /\ vr.blockHeight > 0
    /\ vr.err = errLateRevision

\* C10 as written: the deadline predicate of verifyRevision passes exactly
\* when blockHeight <= expiration - revisionSubmissionBuffer, equality
\* included, and fails with errLateRevision otherwise (stated here for the
\* obligations whose expiration is no less than the buffer, where the
\* difference is the same in unsigned and in unbounded arithmetic).
C10_DeadlineInclusive ==
    (VerifiedWellFormed /\ expiration(vr.so) >= revisionSubmissionBuffer) =>
        (vr.err # errLateRevision
            <=> vr.blockHeight <= expiration(vr.so) - revisionSubmissionBuffer)

\* C10, amended: the deadline predicate passes exactly when blockHeight <
\* expiration - revisionSubmissionBuffer, the difference being the one the
\* code computes on unsigned block heights (it wraps around when expiration
\* < revisionSubmissionBuffer), and fails with errLateRevision otherwise.
C10_DeadlineExclusive ==
    VerifiedWellFormed =>
        (vr.err # errLateRevision
            <=> vr.blockHeight < U64(expiration(vr.so) - revisionSubmissionBuffer))

C10_Witness ==
    /\ VerifiedWellFormed
    /\ vr.blockHeight + 1 = expiration(vr.so) - revisionSubmissionBuffer
    /\ vr.err = nil

-----------------------------------------------------------------------------
(* Properties of verifyRevision's predicates *)

\* The predicates of verifyRevision, each named by the error it fails with
\* and stated on the arguments of the call: TRUE when the predicate is
\* violated.
Violated(e) ==
    LET old == LatestRevision(vr.so)
        new == vr.revision
        twoValid == Len(new.NewValidProofOutputs) >= 2
        twoMissed == Len(new.NewMissedProofOutputs) >= 2
    IN
    CASE e = errBadContractOutputCounts ->
            Len(new.NewValidProofOutputs) # 2 \/ Len(new.NewMissedProofOutputs) # 3
      [] e = errLateRevision ->
            U64(expiration(vr.so) - revisionSubmissionBuffer) <= vr.blockHeight
      [] e = errBadContractParent -> old.ParentID # new.ParentID
      [] e = errBadUnlockConditions -> old.UnlockConditions # new.UnlockConditions
      [] e = errBadRevisionNumber -> new.NewRevisionNumber <= old.NewRevisionNumber
      [] e = errBadFileSize ->
            new.NewFileSize # U64(Len(vr.so.SectorRoots) * SectorSize)
      [] e = errBadWindowStart -> old.NewWindowStart # new.NewWindowStart
      [] e = errBadWindowEnd -> old.NewWindowEnd # new.NewWindowEnd
      [] e = errBadUnlockHash -> old.NewUnlockHash # new.NewUnlockHash
      [] e = errHighRenterValidOutput ->
            twoValid /\ new.NewValidProofOutputs[1] + vr.newRevenue
                            > old.NewValidProofOutputs[1]
      [] e = errLowHostValidOutput ->
            twoValid /\ new.NewValidProofOutputs[2]
                            > old.NewValidProofOutputs[2] + vr.newRevenue
      [] e = errHighRenterMissedOutput ->
            twoMissed /\ new.NewMissedProofOutputs[1] + vr.newRevenue
                            > old.NewMissedProofOutputs[1]
      [] e = errLowHostMissedOutput ->
            twoMissed /\ new.NewMissedProofOutputs[2] + vr.newCollateral
                            < old.NewMissedProofOutputs[2]
      [] e = errBadFileMerkleRoot ->
            new.NewFileMerkleRoot # CachedTreeRoot(vr.so.SectorRoots)
      [] OTHER -> FALSE

\* The error of the first violated predicate of a list, nil when none is.
FirstViolated(order) ==
    LET bad == {i \in 1..Len(order) : Violated(order[i])} IN
    IF bad = {} THEN nil
    ELSE order[CHOOSE i \in bad : \A j \in bad : i <= j]

\* The order in which the code tests the predicates.
TestedOrder ==
    <<errBadContractOutputCounts, errLateRevision, errBadContractParent,
      errBadUnlockConditions, errBadRevisionNumber, errBadFileSize,
      errBadWindowStart, errBadWindowEnd, errBadUnlockHash,
      errHighRenterValidOutput, errLowHostValidOutput,
      errHighRenterMissedOutput, errLowHostMissedOutput, errBadFileMerkleRoot>>

\* The order the specification gives: the invariant fields together, before
\* the revision number and the file size.
SpecifiedOrder ==
    <<errBadContractOutputCounts, errLateRevision, errBadContractParent,
      errBadUnlockConditions, errBadWindowStart, errBadWindowEnd,
      errBadUnlockHash, errBadRevisionNumber, errBadFileSize,
      errHighRenterValidOutput, errLowHostValidOutput,
      errHighRenterMissedOutput, errLowHostMissedOutput, errBadFileMerkleRoot>>

\* No predicate tested before the one failing with e is violated.
PassesUntil(e) ==
    \A i \in 1..Len(TestedOrder) :
        (\E j \in (i + 1)..Len(TestedOrder) : TestedOrder[j] = e)
            => ~Violated(TestedOrder[i])

\* C11: verifyRevision accepts a revision only if the host's valid output
\* receives the revenue, new.validOut[1] >= old.validOut[1] + newRevenue; a
\* revision with new.validOut[1] < old.validOut[1] + newRevenue (passing the
\* predicates tested earlier) is rejected with errLowHostValidOutput.
C11_HostValidOutputReceivesRevenue ==
    VerifiedWellFormed =>
        LET old == LatestRevision(vr.so) IN
        /\ vr.err = nil =>
              vr.revision.NewValidProofOutputs[2]
                  >= old.NewValidProofOutputs[2] + vr.newRevenue
        /\ (/\ PassesUntil(errLowHostValidOutput)
            /\ vr.revision.NewValidProofOutputs[2]
                  < old.NewValidProofOutputs[2] + vr.newRevenue)
              => vr.err = errLowHostValidOutput

\* C12 as written: verifyRevision accepts a revision only if
\* new.missedOut[1] + newCollateral <= old.missedOut[1]; otherwise (the
\* predicates tested earlier passing) it returns errLowHostMissedOutput.
C12_HostMissedOutputAtMost ==
    VerifiedWellFormed =>
        LET old == LatestRevision(vr.so) IN
        /\ vr.err = nil =>
              vr.revision.NewMissedProofOutputs[2] + vr.newCollateral
                  <= old.NewMissedProofOutputs[2]
        /\ (/\ PassesUntil(errLowHostMissedOutput)
            /\ vr.revision.NewMissedProofOutputs[2] + vr.newCollateral
                  > old.NewMissedProofOutputs[2])
              => vr.err = errLowHostMissedOutput

\* C12, amended: verifyRevision accepts a revision only if
\* new.missedOut[1] + newCollateral >= old.missedOut[1]; a revision with
\* new.missedOut[1] + newCollateral < old.missedOut[1] that passes the
\* predicates tested earlier is rejected with errLowHostMissedOutput, and
\* errLowHostMissedOutput is returned for no other revision.
C12_HostMissedOutputAtLeast ==
    VerifiedWellFormed =>
        LET old == LatestRevision(vr.so)
            low == vr.revision.NewMissedProofOutputs[2] + vr.newCollateral
                      < old.NewMissedProofOutputs[2]
        IN
        /\ vr.err = nil => ~low
        /\ (PassesUntil(errLowHostMissedOutput) /\ low)
              => vr.err = errLowHostMissedOutput
        /\ vr.err = errLowHostMissedOutput => low

C12_Witness ==
    /\ VerifiedWellFormed
    /\ vr.newCollateral > 0
    /\ vr.revision.NewMissedProofOutputs[2] + vr.newCollateral + 1
          = LatestRevision(vr.so).NewMissedProofOutputs[2]
    /\ vr.err = errLowHostMissedOutput

\* C13 as written: the error returned is that of the first violated
\* predicate in the order the specification gives (a changed window start
\* before a non-increasing revision number).
C13_SpecifiedOrder ==
    vr.state = "returned" => vr.err = FirstViolated(SpecifiedOrder)

\* C13, amended: the error returned is that of the first violated predicate
\* in the order output counts, lateness, parent ID, unlock-conditions hash,
\* revision number, file size, window start, window end, new unlock hash,
\* renter valid output, host valid output, renter missed output, host missed
\* output, Merkle root; a revision with a changed window start and a
\* non-increasing revision number yields errBadRevisionNumber.
C13_TestedOrder ==
    vr.state = "returned" =>
        /\ vr.err = FirstViolated(TestedOrder)
        /\ (/\ PassesUntil(errBadRevisionNumber)
            /\ Violated(errBadWindowStart)
            /\ Violated(errBadRevisionNumber))
              => vr.err = errBadRevisionNumber

C13_Witness ==
    /\ vr.state = "returned"
    /\ Violated(errBadWindowStart)
    /\ Violated(errBadRevisionNumber)
    /\ vr.err = errBadRevisionNumber

-----------------------------------------------------------------------------
(* Properties of the modification loop *)

\* The loop body runs over the next modification of the batch.
LoopStep == batch.state = "running" /\ batch'.done # batch.done

\* C14: the index of each modification is checked against the working
\* sector-root list, as the earlier modifications of the batch left it: an
\* Insert at index len(sectorRoots) passes the index test (and, with a whole
\* sector of data, puts the sector's root at the end of the list), an Insert
\* at len(sectorRoots)+1 fails with errBadModificationIndex, and a Delete or
\* a Modify at len(sectorRoots) fails with errBadModificationIndex.
C14_IndexAgainstWorkingList ==
    [][LoopStep =>
        LET m == Head(batch.mods)
            roots == batch.st.SectorRoots
            n == Len(roots)
            after == batch'.st
        IN
        /\ (m.Type = "ActionInsert" /\ m.SectorIndex = n) =>
              /\ after.err # errBadModificationIndex
              /\ Len(m.Data) = SectorSize =>
                    /\ after.err = nil
                    /\ after.SectorRoots = Append(roots, MerkleRoot(m.Data))
        /\ (m.Type = "ActionInsert" /\ m.SectorIndex = n + 1) =>
              /\ after.err = errBadModificationIndex
              /\ after.SectorRoots = roots
        /\ (m.Type \in {"ActionDelete", "ActionModify"} /\ m.SectorIndex = n) =>
              /\ after.err = errBadModificationIndex
              /\ after.SectorRoots = roots
    ]_vars

\* The second modification of a batch inserted a sector at the end of the
\* list the first one had made longer.
C14_Witness ==
    /\ Len(batch.done) = 2
    /\ batch.done[1].Type = "ActionInsert"
    /\ batch.done[2].Type = "ActionInsert"
    /\ batch.done[2].SectorIndex = Len(batch.so.SectorRoots) + 1
    /\ batch.st.err = nil
    /\ Len(batch.st.SectorRoots) = Len(batch.so.SectorRoots) + 2

\* C15: a Modify with a valid index and data no longer than a sector passes
\* the offset test when Offset + len(Data) = SectorSize (and, the sector
\* being readable, replaces the sector by the sector with the data copied
\* in at the offset), fails with errIllegalOffsetAndLength when Offset +
\* len(Data) = SectorSize + 1, and is never accepted when Offset + len(Data),
\* taken without wrap-around, is beyond SectorSize.
C15_ModifyWithinSector ==
    [][LoopStep =>
        LET m == Head(batch.mods)
            roots == batch.st.SectorRoots
            after == batch'.st
        IN
        (/\ m.Type = "ActionModify"
         /\ m.SectorIndex < Len(roots)
         /\ Len(m.Data) <= SectorSize) =>
            /\ m.Offset + Len(m.Data) = SectorSize =>
                  /\ after.err # errIllegalOffsetAndLength
                  /\ batch.readable =>
                        /\ after.err = nil
                        /\ after.SectorRoots =
                              [roots EXCEPT ![m.SectorIndex + 1] =
                                  MerkleRoot(Copy(ReadSector(roots[m.SectorIndex + 1]),
                                                  m.Offset, m.Data))]
            /\ m.Offset + Len(m.Data) = SectorSize + 1 =>
                  after.err = errIllegalOffsetAndLength
            /\ m.Offset + Len(m.Data) > SectorSize =>
                  /\ after.err = errIllegalOffsetAndLength
                  /\ after.SectorRoots = roots
    ]_vars

\* A Modify whose Offset + len(Data) wraps around to a value within the
\* sector was refused.
C15_Witness ==
    /\ batch.done # <<>>
    /\ LET m == batch.done[Len(batch.done)] IN
        /\ m.Type = "ActionModify"
        /\ m.Offset + Len(m.Data) >= WordModulus
        /\ U64(m.Offset + Len(m.Data)) <= SectorSize
        /\ Len(m.Data) > 0
    /\ batch.st.err = errIllegalOffsetAndLength

-----------------------------------------------------------------------------
(* Properties of the transaction validators *)

Returned(validator) == tv.state = "returned" /\ tv.validator = validator

\* Two inputs of the list carry the same parent ID.
SameParentTwice(inputs) ==
    \E i, j \in 1..Len(inputs) : i # j /\ inputs[i] = inputs[j]

\* C16: ValidateDoubleCoinSpends (ValidateDoubleBlockStakeSpends) returns
\* ErrDoubleSpend exactly when two coin inputs (two block stake inputs) of
\* the transaction carry the same parent ID, and nil otherwise; so a parent
\* ID shared between a coin input and a block stake input is no double
\* spend, and a transaction with no inputs passes.
C16_DoubleSpendWithinKind ==
    /\ Returned("ValidateDoubleCoinSpends") =>
          tv.err = IF SameParentTwice(tv.tx.CoinInputs) THEN ErrDoubleSpend ELSE nil
    /\ Returned("ValidateDoubleBlockStakeSpends") =>
          tv.err = IF SameParentTwice(tv.tx.BlockStakeInputs) THEN ErrDoubleSpend
                   ELSE nil

\* A coin input and a block stake input share their parent ID, no two coin
\* inputs do, and ValidateDoubleCoinSpends returned nil.
C16_Witness ==
    /\ Returned("ValidateDoubleCoinSpends")
    /\ \E i \in 1..Len(tv.tx.CoinInputs), j \in 1..Len(tv.tx.BlockStakeInputs) :
          tv.tx.CoinInputs[i] = tv.tx.BlockStakeInputs[j]
    /\ Len(tv.tx.CoinInputs) > 1
    /\ tv.err = nil

\* The positions of the inputs whose parent is not among the unspent outputs.
Missing(inputs, unspent) == {i \in 1..Len(inputs) : inputs[i] \notin DOMAIN unspent}

\* The sum of the parents' values, all parents being unspent outputs.
ParentSum(inputs, unspent) == Sum([i \in 1..Len(inputs) |-> unspent[inputs[i]]])

IsLookupError(err, id) ==
    /\ err # nil
    /\ Len(err.msg) = 2
    /\ err.msg[2] = id

IsDirectionError(err, direction) ==
    /\ err # nil
    /\ Len(err.msg) = 1
    /\ err.msg[1] \in {"unbalanced coin outputs: inputs " \o direction \o " outputs",
                       "unbalanced block stake outputs: inputs " \o direction \o " outputs"}

\* C17: ValidateCoinOutputsAreBalanced returns nil exactly when every coin
\* input's parent is an unspent coin output and the parents' values add up
\* to the coin outputs plus the miner fees.  When a parent is missing it
\* returns the lookup error of the first missing input, whatever the sums;
\* otherwise a "less than" error when inputs < outputs and a "greater than"
\* error when inputs > outputs.
C17_CoinOutputsBalanced ==
    Returned("ValidateCoinOutputsAreBalanced") =>
        LET tx == tv.tx
            unspent == tv.css.coinOutputs
            missing == Missing(tx.CoinInputs, unspent)
            out == Sum(tx.CoinOutputs) + Sum(tx.MinerFees)
        IN
        IF missing # {}
        THEN IsLookupError(tv.err,
                 tx.CoinInputs[CHOOSE i \in missing : \A j \in missing : i <= j])
        ELSE LET in == ParentSum(tx.CoinInputs, unspent) IN
             /\ in = out => tv.err = nil
             /\ in < out => IsDirectionError(tv.err, "less than")
             /\ in > out => IsDirectionError(tv.err, "greater than")

\* Two coin inputs worth 3 together pay one coin output and a miner fee, and
\* the transaction is balanced.
C17_Witness ==
    /\ Returned("ValidateCoinOutputsAreBalanced")
    /\ Len(tv.tx.CoinInputs) = 2
    /\ tv.tx.CoinOutputs # <<>>
    /\ tv.tx.MinerFees # <<>>
    /\ tv.err = nil

\* C18: ValidateBlockStakeOutputsAreBalanced returns nil exactly when every
\* block stake input's parent is an unspent block stake output and the
\* parents' values add up to the plain sum of the block stake outputs; its
\* result is the same for the transaction without its miner fees, coin
\* inputs and coin outputs.
C18_BlockStakeOutputsBalanced ==
    Returned("ValidateBlockStakeOutputsAreBalanced") =>
        LET tx == tv.tx
            unspent == tv.css.blockStakeOutputs
        IN
        /\ tv.err = nil <=>
              /\ Missing(tx.BlockStakeInputs, unspent) = {}
              /\ ParentSum(tx.BlockStakeInputs, unspent) = Sum(tx.BlockStakeOutputs)
        /\ tv.err = ValidateBlockStakeOutputsAreBalanced(
                        Transaction(<<>>, <<>>, <<>>,
                                    tx.BlockStakeInputs, tx.BlockStakeOutputs),
                        tv.css)

\* A transaction with miner fees and unbalanced coins has balanced block
\* stakes.
C18_Witness ==
    /\ Returned("ValidateBlockStakeOutputsAreBalanced")
    /\ tv.tx.MinerFees # <<>>
    /\ tv.tx.BlockStakeInputs # <<>>
    /\ ValidateCoinOutputsAreBalanced(tv.tx, tv.css) # nil
    /\ tv.err = nil

-----------------------------------------------------------------------------
(* Properties of the host database scanner *)

\* C19: activeHosts never holds more than maxActiveHosts entries, and an
\* entry is put into activeHosts only with Online = TRUE and Reliability =
\* MaxReliability, which is above 0.
C19_ActiveHostsBounded ==
    /\ [](Cardinality(Keys(activeHosts)) <= maxActiveHosts)
    /\ [][\A a \in NetAddresses :
            (activeHosts'[a] # "none" /\ activeHosts'[a] # activeHosts[a]) =>
                /\ hostEntries'[activeHosts'[a]].Online
                /\ hostEntries'[activeHosts'[a]].Reliability = MaxReliability
                /\ MaxReliability > 0]_vars

\* activeHosts is full, and a host that has just answered its probe is left
\* out of it.
C19_Witness ==
    /\ Cardinality(Keys(activeHosts)) = maxActiveHosts
    /\ \E a \in Keys(allHosts) \ Keys(activeHosts) :
          /\ hostEntries[allHosts[a]].Online
          /\ hostEntries[allHosts[a]].Reliability = MaxReliability

\* C20: every entry present in allHosts has 0 < Reliability <= MaxReliability.
C20_ReliabilityOfKnownHosts ==
    \A a \in Keys(allHosts) :
        /\ 0 < hostEntries[allHosts[a]].Reliability
        /\ hostEntries[allHosts[a]].Reliability <= MaxReliability

\* Steps and states of the probes.

\* The step is a managedUpdateEntry call for entry e, with or without netErr.
Updates(e, netErr) == workers'[<<e, netErr>>] = workers[<<e, netErr>>] - 1

\* The entry stored in allHosts under the address of entry e, or "none".
StoredFor(e) == allHosts[hostEntries[e].NetAddress]

\* allHosts has an entry under the address of e, with the public key of e.
SameKeyStored(e) ==
    /\ StoredFor(e) # "none"
    /\ hostEntries[StoredFor(e)].PublicKey = hostEntries[e].PublicKey

\* What a failed probe with a matching key does to everything but the
\* Reliability of the stored entry p at address a.
Penalised(p, a) ==
    /\ ~hostEntries'[p].Online
    /\ activeHosts'[a] = "none"
    /\ allHosts'[a] = IF hostEntries'[p].Reliability = 0 THEN "none" ELSE p

\* What the code does in the case of C21: when a probe fails and the entry stored in allHosts
\* under the address has the public key of the probed entry, the stored
\* entry's Reliability goes down by UnreachablePenalty, or stays 0 when it
\* was 0 already; the entry is marked offline and removed from activeHosts,
\* and removed from allHosts when its Reliability is then zero.
C21_FailedProbePenalised ==
    [][\A e \in EntryPointers :
        (Updates(e, TRUE) /\ SameKeyStored(e)) =>
            LET p == StoredFor(e)
                a == hostEntries[e].NetAddress
            IN  /\ hostEntries'[p].Reliability =
                      IF hostEntries[p].Reliability = 0 THEN 0
                      ELSE hostEntries[p].Reliability - UnreachablePenalty
                /\ Penalised(p, a)]_vars

\* A failed probe has taken an entry of Reliability UnreachablePenalty out of
\* allHosts and activeHosts.
C21_Witness ==
    /\ hostEntries["e1"].Reliability = 0
    /\ ~hostEntries["e1"].Online
    /\ allHosts["A"] = "none"
    /\ activeHosts["A"] = "none"

\* C21 as stated: the Reliability goes down by exactly UnreachablePenalty.
C21_ExactPenalty ==
    [][\A e \in EntryPointers :
        (Updates(e, TRUE) /\ SameKeyStored(e)) =>
            LET p == StoredFor(e)
                a == hostEntries[e].NetAddress
            IN  /\ hostEntries'[p].Reliability =
                      hostEntries[p].Reliability - UnreachablePenalty
                /\ Penalised(p, a)]_vars

\* C22: when a probe fails and the entry stored in allHosts under the
\* address has another public key than the probed entry, managedUpdateEntry
\* changes nothing: the stored entry keeps its Reliability, Online flag,
\* settings and weight, and allHosts and activeHosts stay as they are.
C22_OtherKeyNoPenalty ==
    [][\A e \in EntryPointers :
        (Updates(e, TRUE) /\ StoredFor(e) # "none" /\ ~SameKeyStored(e)) =>
            /\ hostEntries'[StoredFor(e)] = hostEntries[StoredFor(e)]
            /\ allHosts' = allHosts
            /\ activeHosts' = activeHosts
            /\ hostEntries' = hostEntries]_vars

\* A worker is about to report the failed probe of an entry whose address
\* belongs, in allHosts and activeHosts, to an online entry with another key.
C22_Witness ==
    \E e \in EntryPointers :
        /\ workers[<<e, TRUE>>] > 0
        /\ StoredFor(e) # "none" /\ ~SameKeyStored(e)
        /\ hostEntries[StoredFor(e)].Online
        /\ hostEntries[StoredFor(e)].Weight > 0
        /\ activeHosts[hostEntries[e].NetAddress] = StoredFor(e)

\* C23 (as amended): the Reliability of an entry never exceeds
\* MaxReliability; the report of a successful probe sets the probed entry's
\* Reliability to MaxReliability, and no other operation of the scanner makes
\* an entry's Reliability larger than it was.
C23_RaisedOnlyBySuccess ==
    /\ [](\A e \in EntryPointers : hostEntries[e].Reliability <= MaxReliability)
    /\ [][\A e \in EntryPointers :
            /\ Updates(e, FALSE) => hostEntries'[e].Reliability = MaxReliability
            /\ hostEntries'[e].Reliability > hostEntries[e].Reliability =>
                  Updates(e, FALSE)]_vars

\* A successful probe has raised an entry from DefaultReliability to
\* MaxReliability.
C23_Witness ==
    \E e \in EntryPointers :
        /\ hostEntries[e].Reliability = MaxReliability
        /\ hostEntries[e].Reliability > NewHostEntry(e).Reliability
        /\ hostEntries[e].Online

\* C23 as stated: no operation of the scanner makes an entry's Reliability
\* larger than it was before.
C23_MonotonicallyDecreasing ==
    [][\A e \in EntryPointers :
        hostEntries'[e].Reliability <= hostEntries[e].Reliability]_vars

-----------------------------------------------------------------------------
(* Properties of the scanner's goroutines *)

\* threadedScan holds the lock of the database.
DriverHoldsLock == driver.pc = "enqueuing"

\* C24: the scan driver never blocks on the probe channel while it holds the
\* lock: whatever the channel and the workers are at, it has a step to take
\* (the next scanHostEntry, or the Unlock), and it gets to the Unlock.
C24_DriverNeverBlocks ==
    /\ [](DriverHoldsLock => ENABLED (RoundEnqueue \/ RoundUnlock))
    /\ (DriverHoldsLock ~> ~DriverHoldsLock)

\* The driver holds the lock and has hosts to enqueue, the channel is full,
\* and every worker waits for the lock with the result of its probe.
C24_Witness ==
    /\ DriverHoldsLock
    /\ driver.left # {}
    /\ Held(scanPool) = scanPoolSize
    /\ exited = 0
    /\ IdleWorkers(workers) = 0

\* The step is a call of scanHostEntry.
Enqueues == \E e \in EntryPointers : producers'[e] > producers[e]

\* threadedScan returns in the end, once closeChan is closed.
DriverReturns == closed.closeChan ~> (driver.pc = "returned")

\* Every worker leaves threadedProbeHosts in the end, once the probe channel
\* is closed.
WorkersExit == closed.scanPool ~> (exited = scanningThreads)

\* C25 (as amended): the scan driver looks at the close channel only in the
\* select in which it sleeps between two rounds. A round that has begun, or
\* that begins as the sleep ends, enqueues its hosts though close has been
\* signalled, and is then the last one: the driver returns right after it.
\* Once close has been signalled the driver returns in the end, and once the
\* probe channel is closed every worker exits in the end.
C25_CloseSeenBetweenRounds ==
    /\ [][(closed.closeChan /\ Enqueues) =>
              (DriverHoldsLock /\ driver'.pc = "enqueuing")]_vars
    /\ [][(closed.closeChan /\ DriverHoldsLock /\ driver'.pc # "enqueuing") =>
              driver'.pc = "returned"]_vars
    /\ [][driver.pc = "returned" =>
              (driver' = driver /\ ~Enqueues)]_vars
    /\ DriverReturns
    /\ WorkersExit

\* close has been signalled, the driver has returned, the channel is closed
\* and empty, and every worker has exited.
C25_Witness ==
    /\ closed.closeChan /\ closed.scanPool
    /\ driver.pc = "returned"
    /\ Held(scanPool) = 0
    /\ exited = scanningThreads

\* C25 as stated: once close has been signalled the driver enqueues no
\* further host, and it returns in the end; every worker exits in the end
\* once the probe channel is closed.
C25_NoEnqueueAfterClose ==
    /\ [][closed.closeChan => ~Enqueues]_vars
    /\ DriverReturns
    /\ WorkersExit

-----------------------------------------------------------------------------
(* Properties of calculateHostWeight *)

\* calculateHostWeight has been called for the entries with collateral 10
\* and 20, their prices being the same.
BothWeighed == hw.weight[10] # <<>> /\ hw.weight[20] # <<>>

\* The collateral-20 entry has twice the weight of the collateral-10 entry.
TwiceTheWeight == hw.weight[20][1] = 2 * hw.weight[10][1]

\* The siafund fee is the same for the two entries.
SameFee ==
    siafundFee(PricedEntry(hw.prices, 10)) = siafundFee(PricedEntry(hw.prices, 20))

\* C26 (as amended): of two entries with the same prices and collateral 10
\* and 20, the second has exactly twice the weight of the first when the
\* siafund fee, which is taken of the collateral too, is the same for both;
\* when the fee of the second is higher, so is its total price, and its
\* weight is at most twice the weight of the first.
C26_TwiceWithTheSameFee ==
    BothWeighed =>
        /\ SameFee => TwiceTheWeight
        /\ hw.weight[20][1] <= 2 * hw.weight[10][1]

\* Two entries with a total price above 1 and the same fee have been weighed.
C26_Witness ==
    /\ BothWeighed
    /\ SameFee
    /\ totalPrice(PricedEntry(hw.prices, 10)) > 1
    /\ hw.weight[10][1] > 0

\* C26 as stated: the collateral-20 entry has exactly twice the weight of the
\* collateral-10 entry, whatever the prices.
C26_TwiceTheWeight == BothWeighed => TwiceTheWeight

-----------------------------------------------------------------------------
(* Properties of the revenue of a batch *)

\* The modifications of the given type among those the loop has made.
OfType(done, type) == {i \in 1..Len(done) : done[i].Type = type}

\* The sum of len(Data) over the modifications with the given indices.
RECURSIVE DataLength(_, _)
DataLength(done, indices) ==
    IF indices = {} THEN 0
    ELSE LET i == CHOOSE x \in indices : TRUE
         IN  Len(done[i].Data) + DataLength(done, indices \ {i})

\* The loop has made every modification of the batch, and the revision is
\* not late, as that of an accepted batch is not.
BatchMade ==
    /\ batch.state = "returned"
    /\ batch.st.err = nil
    /\ ~LateRevision(batch.so, blockHeight)

\* C27: for a batch whose modifications were all made, the figures the loop
\* hands to verifyRevision are: storageRevenue = #Inserts * MinStoragePrice *
\* (proofDeadline - blockHeight) * SectorSize, newCollateral = #Inserts *
\* Collateral * (proofDeadline - blockHeight) * SectorSize, bandwidthRevenue =
\* MinUploadBandwidthPrice * (#Inserts * SectorSize + the sum of len(Data)
\* over the Modifies); a Delete adds nothing, a Modify nothing to storage
\* revenue or collateral.
C27_RevenueOfBatch ==
    BatchMade =>
        LET inserts == Cardinality(OfType(batch.done, "ActionInsert"))
            blocks == proofDeadline(batch.so) - blockHeight
        IN  /\ batch.st.storageRevenue =
                  inserts * settings.MinStoragePrice * blocks * SectorSize
            /\ batch.st.newCollateral =
                  inserts * settings.Collateral * blocks * SectorSize
            /\ batch.st.bandwidthRevenue =
                  settings.MinUploadBandwidthPrice
                  * (inserts * SectorSize
                     + DataLength(batch.done, OfType(batch.done, "ActionModify")))

\* A batch of an insert and a modify that wrote data has been made, above
\* block height 0.
C27_Witness ==
    /\ BatchMade
    /\ blockHeight > 0
    /\ OfType(batch.done, "ActionInsert") # {}
    /\ \E i \in OfType(batch.done, "ActionModify") : Len(batch.done[i].Data) > 0

-----------------------------------------------------------------------------
(* Properties of a delete followed by an insert *)

\* The loop has made a Delete at index i and then an Insert at the same index
\* of the sector whose root the obligation had there.
DeletedAndReinserted(i) ==
    /\ batch.state = "returned"
    /\ batch.st.err = nil
    /\ Len(batch.done) = 2
    /\ i < Len(batch.so.SectorRoots)
    /\ batch.done[1].Type = "ActionDelete" /\ batch.done[1].SectorIndex = i
    /\ batch.done[2].Type = "ActionInsert" /\ batch.done[2].SectorIndex = i
    /\ batch.done[2].Data = ReadSector(batch.so.SectorRoots[i + 1])

\* C28: Delete(i) followed by Insert(i, data), where data is the sector whose
\* root was at index i < len(list), leaves the list of sector roots as it was,
\* and so the Merkle root of the file.
C28_DeleteThenInsertRestores ==
    \A i \in 0..(MaxSectors - 1) :
        DeletedAndReinserted(i) =>
            /\ batch.st.SectorRoots = batch.so.SectorRoots
            /\ CachedTreeRoot(batch.st.SectorRoots)
                   = CachedTreeRoot(batch.so.SectorRoots)

\* The last sector of a list of two different sectors was deleted and
\* inserted again.
C28_Witness ==
    /\ DeletedAndReinserted(1)
    /\ batch.so.SectorRoots[1] # batch.so.SectorRoots[2]

-----------------------------------------------------------------------------
(* Properties of a scan round *)

\* The times the step enqueues entry e: the goroutines of scanHostEntry it
\* starts for e.
Enqueued(e) == producers'[e] - producers[e]

\* The step is a round of threadedScan that enqueues a host.
RoundStep == \E e \in EntryPointers : Enqueued(e) > 0

\* The entries of the active hosts.
ActiveEntries == {activeHosts[a] : a \in Keys(activeHosts)}

\* The entries of allHosts whose address is not that of an active host.
InactiveEntries ==
    {allHosts[a] : a \in {b \in Keys(allHosts) :
                            hostEntries[allHosts[b]].NetAddress
                                \notin Keys(activeHosts)}}

\* The number of hosts the step enqueues.
RECURSIVE EnqueuedIn(_)
EnqueuedIn(entries) ==
    IF entries = {} THEN 0
    ELSE LET e == CHOOSE x \in entries : TRUE
         IN  Enqueued(e) + EnqueuedIn(entries \ {e})

C30_AtMostMaxActiveHosts ==
    [][RoundStep => EnqueuedIn(EntryPointers) <= maxActiveHosts]_vars

\* More than maxActiveHosts hosts wait to be sent: an active one and one that
\* is not active.
C30_Witness ==
    /\ Held(producers) > maxActiveHosts
    /\ \E e \in ActiveEntries : producers[e] = 1
    /\ \E a \in Keys(allHosts) \ Keys(activeHosts) : producers[allHosts[a]] = 1

-----------------------------------------------------------------------------
(* The configuration of the daemon (rivined/daemon.go) *)

\* A string is the sequence of its parts: a host, ":", a port, the letter
\* of a module.
Digits == {"9980"}
LoopbackHosts == {"localhost", "127.0.0.1"}
OtherHosts == {"10.0.0.1"}

\* strconv.Atoi(addr) gives no error.
IsInteger(addr) == Len(addr) = 1 /\ addr[1] \in Digits

\* processNetAddr(addr)
processNetAddr(addr) == IF IsInteger(addr) THEN <<":">> \o addr ELSE addr

\* modules.NetAddress.Host(): what is before the colon, "" when there is
\* no colon.
NetAddressHost(addr) ==
    IF \E i \in 1..Len(addr) : addr[i] = ":"
    THEN IF addr[1] = ":" THEN "" ELSE addr[1]
    ELSE ""

\* modules.NetAddress.IsLoopback()
IsLoopback(addr) == NetAddressHost(addr) \in LoopbackHosts

\* strings.ToLower of a letter.
ToLower(m) == IF m = "G" THEN "g" ELSE m

\* strings.Replace(str, m, "", 1): str without the first m.
RECURSIVE ReplaceFirst(_, _)
ReplaceFirst(str, m) ==
    IF str = <<>> THEN <<>>
    ELSE IF Head(str) = m THEN Tail(str)
    ELSE <<Head(str)>> \o ReplaceFirst(Tail(str), m)

\* The loop of processModules over the valid modules.
RECURSIVE InvalidModules(_, _)
InvalidModules(str, valid) ==
    IF valid = <<>> THEN str
    ELSE InvalidModules(ReplaceFirst(str, Head(valid)), Tail(valid))

\* processModules(modules): the modules and the error.
processModules(modules) ==
    LET lower == [i \in 1..Len(modules) |-> ToLower(modules[i])]
        invalidModules == InvalidModules(lower, <<"c", "g", "t", "w", "e">>)
    IN  IF Len(invalidModules) > 0
        THEN [modules |-> <<>>,
              err |-> errorsNew("Unable to parse --modules flag")]
        ELSE [modules |-> lower, err |-> nil]

verifyAPISecurity_PasswordNotEnforced(config) ==
    IF ~config.AllowAPIBind /\ ~IsLoopback(config.APIaddr)
    THEN errorsNew("you must pass --disable-api-security")
    ELSE nil

\* verifyAPISecurity(config)
verifyAPISecurity(config) ==
    IF ~config.AllowAPIBind
    THEN IF ~IsLoopback(config.APIaddr)
         THEN IF NetAddressHost(config.APIaddr) = ""
              THEN errorsNew("a blank host will listen on all interfaces")
              ELSE errorsNew("you must pass --disable-api-security")
         ELSE nil
    ELSE IF config.AllowAPIBind /\ ~config.AuthenticateAPI
         THEN errorsNew("cannot use --disable-api-security without setting an api password")
         ELSE nil

\* build.JoinErrors(errs, sep): nil when every error is nil, or an error of
\* the messages joined by sep.
RECURSIVE JoinErrors(_, _)
JoinErrors(errs, sep) ==
    IF errs = <<>> THEN nil
    ELSE LET rest == JoinErrors(Tail(errs), sep) IN
         IF Head(errs) = nil THEN rest
         ELSE IF rest = nil THEN [type |-> "error", msg |-> Head(errs).msg]
         ELSE [type |-> "error", msg |-> Head(errs).msg \o <<sep>> \o rest.msg]

\* Config{}
EmptyConfig ==
    [APIaddr |-> <<>>, RPCaddr |-> <<>>, HostAddr |-> <<>>, Modules |-> <<>>,
     AllowAPIBind |-> FALSE, AuthenticateAPI |-> FALSE]

\* processConfig(config): the configuration and the error.
processConfig(config) ==
    LET mods == processModules(config.Modules)
        processed == [config EXCEPT
                         !.APIaddr = processNetAddr(config.APIaddr),
                         !.RPCaddr = processNetAddr(config.RPCaddr),
                         !.HostAddr = processNetAddr(config.HostAddr),
                         !.Modules = mods.modules]
        err == JoinErrors(<<mods.err, verifyAPISecurity(processed)>>, ", and ")
    IN  IF err # nil THEN [config |-> EmptyConfig, err |-> err]
        ELSE [config |-> processed, err |-> nil]

\* The addresses a configuration may give: a bare port, and a host (or none)
\* with a port.
ConfigAddresses ==
    {<<d>> : d \in Digits}
    \cup {<<":", d>> : d \in Digits}
    \cup {<<h, ":", d>> : h \in LoopbackHosts \cup OtherHosts, d \in Digits}

\* The strings of modules a configuration may give.
MaxModules == 2
ModuleStrings ==
    UNION {[1..n -> {"c", "G", "x"}] : n \in 0..MaxModules}

Configs ==
    [APIaddr : ConfigAddresses, RPCaddr : {<<"9981">>}, HostAddr : {<<":", "9982">>},
     Modules : ModuleStrings,
     AllowAPIBind : BOOLEAN, AuthenticateAPI : BOOLEAN]

InitConfig ==
    /\ InitHost /\ InitConns({}) /\ renter = "terse"
    /\ vr = NoCall /\ batch = NoCall /\ tv = NoCall /\ NoHostDB
    /\ \E config \in Configs : cfg = [state |-> "given", config |-> config]

\* startDaemon calls processConfig.
ProcessConfigCall ==
    /\ cfg.state = "given"
    /\ cfg' = [state |-> "processed", config |-> cfg.config,
               result |-> processConfig(cfg.config)]
    /\ UNCHANGED <<hostVars, connVars, vr, batch, tv, hdbVars>>

NextConfig == ProcessConfigCall

SpecConfig == InitConfig /\ [][NextConfig]_vars

-----------------------------------------------------------------------------
(* Properties of the lock of the host database *)

\* A worker dials a host or reads its settings.
WorkerDials == Dialing(mu) > 0

\* A worker that dials a host or reads its settings holds a lock of the
\* database.
DialsWithLock == \E e \in EntryPointers : mu.dials[<<e, TRUE>>] > 0

\* The holder of the write lock saves the database.
SavesWithLock == mu.writer # "none" /\ mu.saving

\* C31 as the specification has it: whoever holds the write lock does no
\* I/O, neither a dial or a read or write of a connection nor a save, and a
\* worker that dials and reads the settings holds no lock of the database.
C31_NoLockAcrossIO == ~SavesWithLock /\ ~DialsWithLock

\* C31: whoever holds a lock of the database does no dial and no read or
\* write of a connection: a worker that dials and reads the settings holds
\* neither lock, and the holder of the write lock is in the round of
\* threadedScan or in managedUpdateEntry, where the save (and only the save)
\* is done with the write lock.
C31_NoLockAcrossNetwork ==
    /\ ~DialsWithLock
    /\ WorkerDials => ReadLocks(mu) = Held(mu.reading)
    /\ mu.saving => mu.writer = "worker"
    /\ mu.writer # "none" => ReadLocks(mu) = 0

\* A worker dials a host, without a lock, after the settings of a host were
\* saved.
C31_Witness ==
    /\ WorkerDials /\ ~DialsWithLock
    /\ \E e \in EntryPointers : hostEntries[e].Online

-----------------------------------------------------------------------------
(* Properties of processConfig *)

\* processConfig has returned for the configuration given.
Processed == cfg.state = "processed"

\* The API address as processConfig makes it is a loopback address.
LoopbackAPI == IsLoopback(processNetAddr(cfg.config.APIaddr))

\* What C32 asks of a configuration: disable-api-security unset and a
\* loopback API address, or disable-api-security set with authenticate-api.
APISecure ==
    \/ ~cfg.config.AllowAPIBind /\ LoopbackAPI
    \/ cfg.config.AllowAPIBind /\ cfg.config.AuthenticateAPI

\* C32: processConfig accepts a configuration only if disable-api-security
\* is unset and the API address is a loopback address, or
\* disable-api-security is set together with authenticate-api; otherwise it
\* returns an error. A configuration that is secure in this way and names
\* valid modules is accepted.
C32_APISecurity ==
    Processed =>
        /\ cfg.result.err = nil => APISecure
        /\ ~cfg.config.AllowAPIBind /\ ~LoopbackAPI => cfg.result.err # nil
        /\ cfg.config.AllowAPIBind /\ ~cfg.config.AuthenticateAPI
              => cfg.result.err # nil
        /\ APISecure /\ processModules(cfg.config.Modules).err = nil
              => cfg.result.err = nil

\* processConfig has rejected disable-api-security without authenticate-api,
\* for valid modules.
C32_Witness ==
    /\ Processed
    /\ cfg.config.AllowAPIBind /\ ~cfg.config.AuthenticateAPI
    /\ processModules(cfg.config.Modules).err = nil
    /\ cfg.result.err # nil

-----------------------------------------------------------------------------
(* Properties of the entries of the active hosts *)

\* The node of address a indexes the entry allHosts holds for a.
OwnedByAllHosts(a) == a \in Keys(allHosts) /\ activeHosts[a] = allHosts[a]

\* C33: whatever calls of managedUpdateEntry were made, every address of
\* activeHosts is an address of allHosts, and the entry of the active node is
\* the entry allHosts holds for the address.
C33_ActiveEntriesOwned == \A a \in Keys(activeHosts) : OwnedByAllHosts(a)

\* The active node of an address indexes another entry than the one
\* allHosts holds for the address.
C33_Witness ==
    \E a \in Keys(activeHosts) :
        /\ a \in Keys(allHosts)
        /\ activeHosts[a] # allHosts[a]
        /\ hostEntries[activeHosts[a]].NetAddress = a

-----------------------------------------------------------------------------
(* Properties of the prices of an iteration *)

\* The iteration of connection c reads the batch and the revision and
\* computes the revenue of the batch.
RevenueComputed(c) == pc[c] = "awaitAck" /\ iter'[c].revision # NoRevision

\* The settings the host sent at the start of the iteration of c.
SentSettings(c) == iter[c].out[1].settings

\* The figures are those of a batch of some inserts and some bytes modified
\* at the prices hs.
AtThePricesOf(it, hs, o, height) ==
    \E inserts \in 0..(MaxSectors + 1), modified \in 0..(2 * SectorSize) :
        /\ it.storageRevenue
              = inserts * hs.MinStoragePrice * BlockBytesCurrency(o, height)
        /\ it.newCollateral
              = inserts * hs.Collateral * BlockBytesCurrency(o, height)
        /\ it.bandwidthRevenue
              = hs.MinUploadBandwidthPrice * (inserts * SectorSize + modified)

\* C34: the storage revenue, bandwidth revenue and collateral an iteration
\* computes are computed at the prices and the collateral rate of the
\* settings the host sent the renter in that iteration, also when another
\* thread changes the settings of the host after they were sent.
C34_PricesAsSent ==
    [][\A c \in Conns :
          RevenueComputed(c) =>
              AtThePricesOf(iter'[c], SentSettings(c), so[c], blockHeight)]_vars

\* An iteration has computed the collateral of an insert at another rate
\* than the one of the settings it sent.
C34_Witness ==
    \E c \in Conns :
        /\ iter[c].revision # NoRevision
        /\ iter[c].storageRevenue > 0
        /\ iter[c].newCollateral
              # iter[c].storageRevenue * iter[c].out[1].settings.Collateral

-----------------------------------------------------------------------------
(* Properties of the block counts of an iteration *)

\* The iteration of connection c calls modifyStorageObligation.
ModifyCalled(c) == ~iter[c].modifyCalled /\ iter'[c].modifyCalled

\* The batch of the iteration of c has inserted a sector: so has more
\* sectors than the obligation the host keeps.
InsertMade(c) ==
    Len(so[c].SectorRoots) > Len(obligations[so[c].id].SectorRoots)

\* C35: when modifyStorageObligation is called in an iteration that
\* inserted a sector, neither proofDeadline - blockHeight nor expiration -
\* revisionSubmissionBuffer has wrapped around in that iteration:
\* blockHeight <= proofDeadline and revisionSubmissionBuffer <= expiration,
\* whatever the block height and the obligation (proofDeadline >=
\* expiration).
C35_NoWrappedBlockCount ==
    [][\A c \in Conns :
          ModifyCalled(c) /\ InsertMade(c) =>
              /\ iter[c].blockHeight <= proofDeadline(so[c])
              /\ revisionSubmissionBuffer <= expiration(so[c])]_vars

\* An insert was committed for an obligation that expires before
\* revisionSubmissionBuffer, at a block height beyond its proof deadline.
C35_Witness ==
    \E c \in Conns :
        /\ iter[c].committed
        /\ iter[c].storageRevenue > 0
        /\ expiration(so[c]) < revisionSubmissionBuffer
        /\ iter[c].blockHeight > proofDeadline(so[c])

====
